---- MODULE Spec2Model ----
(***************************************************************************)
(* A model of the gym-management application of src/src/App.js: one       *)
(* administrator tenant's document store (shifts, clients, payments,      *)
(* modalities), the account registry, and the sessions that read the      *)
(* store through snapshot subscriptions and write it back with full-array *)
(* overwrites.                                                             *)
(*                                                                         *)
(* The store is the server's copy.  A session acts on the last snapshot   *)
(* its subscription delivered, which may be older than the store.  An     *)
(* awaited write (updateDoc, addDoc, deleteDoc followed by await) reaches *)
(* the store within the handler's step; a write that the code issues      *)
(* without awaiting it (forEach(async ...)) is kept in flight and lands   *)
(* in a step of its own.                                                   *)
(***************************************************************************)
EXTENDS Integers, Sequences, FiniteSets, TLC

\* ------------------------------------------------------------------ bounds
\* The largest capacity the shift form is given.
MaxCapacity == 2

\* ------------------------------------------------------------- identifiers
ShiftIds    == {"s1"}
ClientIds   == {"c1", "c2"}      \* ids of Client documents of the roster
ClientUids  == {"u1"}            \* account ids of signed-in end users
ModalityIds == {"m1", "m2"}
PaymentSeq  == <<"p1", "p2">>
PaymentIds  == {PaymentSeq[i] : i \in 1..Len(PaymentSeq)}
BookIds     == ClientIds \cup ClientUids

VARIABLES
  shiftsDb,       \* store: shifts collection of the tenant
  clientsDb,      \* store: clients collection of the tenant
  paymentsDb,     \* store: payments collection of the tenant
  modalitiesDb,   \* store: modalities collection of the tenant
  inFlight,       \* writes issued and not awaited, not yet at the store
  adminView,      \* App.currentView of the administrator's session
  adminShifts,    \* Shifts.shifts: the administrator's last snapshot
  cdAdmin,        \* ClientDashboard.adminUserId is set, per end user
  cdShifts,       \* ClientDashboard.shifts: the end user's last snapshot
  delState,       \* Clients.confirmDeleteClient: where each run stands
  today,          \* the wall clock, as the fields of new Date()
  viewPayments,   \* payments state of the mounted view: its last snapshot
  rendered,       \* what the mounted view shows of the payment status
  modDel,         \* Modalities.confirmDeleteModality: where the run stands
  usersDb,        \* store: the account registry, artifacts/{appId}/users
  rosters,        \* store: account ids linked by each account's clients
  resolver,       \* ClientDashboard.fetchClientProfile: where the scan stands
  reg,            \* per account: the registration handler and auth callback
  lastOp          \* the handler that ran last, and what it reported

storeVars   == <<shiftsDb, clientsDb, paymentsDb, modalitiesDb, inFlight>>
sessionVars == <<adminView, adminShifts, cdAdmin, cdShifts, delState>>
payVars     == <<today, viewPayments, rendered>>
acctVars    == <<usersDb, rosters, resolver, reg>>
farVars     == <<payVars, modDel, acctVars>>
vars        == <<storeVars, sessionVars, farVars, lastOp>>

\* ------------------------------------------------------------- documents
\* A shift document; state is "unused" (id never given out), "live" or
\* "deleted".  A document that is not live carries blank fields.
BlankShift == [state |-> "unused", capacity |-> 0, modalityId |-> "",
               bookedClients |-> <<>>]
GoneShift  == [BlankShift EXCEPT !.state = "deleted"]

\* What a snapshot shows of a document: a document that is not live is not in
\* the result set.
SnapOf(d) == IF d.state = "live" THEN d ELSE BlankShift

Includes(seq, x) == \E i \in 1..Len(seq) : seq[i] = x

\* Array.prototype.filter((id) => id !== x)
RECURSIVE FilterOut(_, _)
FilterOut(seq, x) ==
  IF seq = <<>> THEN <<>>
  ELSE IF Head(seq) = x THEN FilterOut(Tail(seq), x)
       ELSE <<Head(seq)>> \o FilterOut(Tail(seq), x)

\* updateDoc(shiftRef, {bookedClients: arr}): merges the field into the
\* document; fails when the document is absent.
CanUpdateShift(s) == shiftsDb[s].state = "live"
UpdateBooked(s, arr) == [shiftsDb EXCEPT ![s].bookedClients = arr]

\* What a handler left on the screen: the handler, the document and the id it
\* was called for, and the message it showed ("ok", a rejection, "error" for a
\* store failure it caught, "" when it returned without a message).
Op(op, id, arg, result) ==
  [op |-> op, id |-> id, arg |-> arg, result |-> result]

\* A step that is no handler's (a snapshot delivery, a render, the clock)
\* leaves no message.
Quiet == Op("", "", "", "")

\* A capacity is a JavaScript number.  The model counts it in halves, so
\* that the value 0.5, which the number input accepts, has a place among
\* the integers: the capacity value v stands for the number v / 2.
Whole(n) == 2 * n

\* What the capacity field is given: "0", "0.5" and "1" .. MaxCapacity.
Capacities == {0, 1} \cup {Whole(k) : k \in 1..MaxCapacity}

\* The whole numbers among them.
WholeCapacities == {Whole(k) : k \in 0..MaxCapacity}

\* ------------------------------------------------- Shifts (administrator)
\* onSnapshot(shiftsRef, ...): the subscription delivers the whole current
\* result set.
ShiftsSnapshot == [s \in ShiftIds |-> SnapOf(shiftsDb[s])]

AdminDeliver ==
  /\ adminView = "shifts"
  /\ adminShifts # ShiftsSnapshot
  /\ adminShifts' = ShiftsSnapshot
  /\ lastOp' = Quiet
  /\ UNCHANGED <<storeVars, adminView, cdAdmin, cdShifts, delState, farVars>>

\* The form check of handleAddShift and handleUpdateShift.
ShiftFormInvalid(hasDateTime, capacity, modalityId) ==
  \/ ~hasDateTime
  \/ capacity <= 0
  \/ modalityId = ""

\* capacity is the number the field's text stands for: the test coerces the
\* text to it and Number(newShiftCapacity) stores it.
handleAddShift(hasDateTime, capacity, modalityId) ==
  /\ adminView = "shifts"
  /\ IF ShiftFormInvalid(hasDateTime, capacity, modalityId)
     THEN /\ lastOp' = Op("handleAddShift", "", "", "ValidationError")
          /\ UNCHANGED shiftsDb
     ELSE \E s \in ShiftIds :
            /\ shiftsDb[s].state = "unused"
            /\ shiftsDb' = [shiftsDb EXCEPT ![s] =
                  [state |-> "live", capacity |-> capacity,
                   modalityId |-> modalityId, bookedClients |-> <<>>]]
            /\ lastOp' = Op("handleAddShift", s, "", "ok")
  /\ UNCHANGED <<clientsDb, paymentsDb, modalitiesDb, inFlight, sessionVars, farVars>>

handleUpdateShift(s, hasDateTime, capacity, modalityId) ==
  /\ adminView = "shifts"
  /\ adminShifts[s].state = "live"          \* currentShift comes from the list
  /\ IF ShiftFormInvalid(hasDateTime, capacity, modalityId)
     THEN /\ lastOp' = Op("handleUpdateShift", s, "", "ValidationError")
          /\ UNCHANGED shiftsDb
     ELSE IF CanUpdateShift(s)
     THEN /\ shiftsDb' = [shiftsDb EXCEPT ![s].capacity = capacity,
                                            ![s].modalityId = modalityId]
          /\ lastOp' = Op("handleUpdateShift", s, "", "ok")
     ELSE /\ lastOp' = Op("handleUpdateShift", s, "", "error")
          /\ UNCHANGED shiftsDb
  /\ UNCHANGED <<clientsDb, paymentsDb, modalitiesDb, inFlight, sessionVars, farVars>>

confirmDeleteShift(s) ==
  /\ adminView = "shifts"
  /\ adminShifts[s].state = "live"
  /\ shiftsDb' = [shiftsDb EXCEPT ![s] = GoneShift]
  /\ lastOp' = Op("confirmDeleteShift", s, "", "ok")
  /\ UNCHANGED <<clientsDb, paymentsDb, modalitiesDb, inFlight, sessionVars, farVars>>

\* handleBookClient without its includes() test.
BookClientCheckNoIncludes(booked, capacity, c) ==
  IF Whole(Len(booked)) >= capacity THEN "CapacityExceeded" ELSE "ok"

\* handleBookClient with > for >= in its capacity test.
BookClientCheckOffByOne(booked, capacity, c) ==
  IF Includes(booked, c) THEN "AlreadyBooked"
  ELSE IF Whole(Len(booked)) > capacity THEN "CapacityExceeded"
  ELSE "ok"

\* handleBookClient without its capacity test.
BookClientCheckNoCapacity(booked, capacity, c) ==
  IF Includes(booked, c) THEN "AlreadyBooked" ELSE "ok"

\* The two rejections of handleBookClient, in the order the code tests them.
BookClientCheck(booked, capacity, c) ==
  IF Includes(booked, c) THEN "AlreadyBooked"
  ELSE IF Whole(Len(booked)) >= capacity THEN "CapacityExceeded"
  ELSE "ok"

\* selectedClientForBooking is c ("" when nothing is selected); the options of
\* the select are the clients of the roster.
handleBookClient(s, c) ==
  /\ adminView = "shifts"
  /\ adminShifts[s].state = "live"          \* one button per listed shift
  /\ c # "" => clientsDb[c].live
  /\ LET shift  == adminShifts[s]
         booked == shift.bookedClients
         check  == BookClientCheck(booked, shift.capacity, c)
     IN  IF c = ""
         THEN /\ lastOp' = Op("handleBookClient", s, c, "ValidationError")
              /\ UNCHANGED shiftsDb
         ELSE IF check # "ok"
         THEN /\ lastOp' = Op("handleBookClient", s, c, check)
              /\ UNCHANGED shiftsDb
         ELSE IF CanUpdateShift(s)
         THEN /\ shiftsDb' = UpdateBooked(s, Append(booked, c))
              /\ lastOp' = Op("handleBookClient", s, c, "ok")
         ELSE /\ lastOp' = Op("handleBookClient", s, c, "error")
              /\ UNCHANGED shiftsDb
  /\ UNCHANGED <<clientsDb, paymentsDb, modalitiesDb, inFlight, sessionVars, farVars>>

\* One remove button per entry of the listed shift's bookedClients.
handleRemoveClientFromShift(s, c) ==
  /\ adminView = "shifts"
  /\ adminShifts[s].state = "live"
  /\ Includes(adminShifts[s].bookedClients, c)
  /\ LET updatedBookedClients == FilterOut(adminShifts[s].bookedClients, c)
     IN  IF CanUpdateShift(s)
         THEN /\ shiftsDb' = UpdateBooked(s, updatedBookedClients)
              /\ lastOp' = Op("handleRemoveClientFromShift", s, c, "ok")
         ELSE /\ lastOp' = Op("handleRemoveClientFromShift", s, c, "error")
              /\ UNCHANGED shiftsDb
  /\ UNCHANGED <<clientsDb, paymentsDb, modalitiesDb, inFlight, sessionVars, farVars>>

\* ------------------------------------------- ClientDashboard (end user)
\* The resolver effect of ClientDashboard, for this tenant: it sets
\* adminUserId when a Client of the roster carries the account id.
cdMount(u) ==
  /\ ~cdAdmin[u]
  /\ IF \E c \in ClientIds : clientsDb[c].live /\ clientsDb[c].associatedUserUid = u
     THEN /\ cdAdmin' = [cdAdmin EXCEPT ![u] = TRUE]
          /\ lastOp' = Op("fetchClientProfile", u, "", "ok")
     ELSE /\ lastOp' = Op("fetchClientProfile", u, "", "NotAssociated")
          /\ UNCHANGED cdAdmin
  /\ UNCHANGED <<storeVars, adminView, adminShifts, cdShifts, delState, farVars>>

\* onSnapshot of the tenant's shifts, subscribed once adminUserId is set.
cdDeliver(u) ==
  /\ cdAdmin[u]
  /\ cdShifts[u] # ShiftsSnapshot
  /\ cdShifts' = [cdShifts EXCEPT ![u] = ShiftsSnapshot]
  /\ lastOp' = Quiet
  /\ UNCHANGED <<storeVars, adminView, adminShifts, cdAdmin, delState, farVars>>

\* "Turnos Disponibles": the rows that carry the Reservar button.
IsAvailableRow(shift, u) ==
  /\ shift.state = "live"
  /\ ~Includes(shift.bookedClients, u)
  /\ Whole(Len(shift.bookedClients)) < shift.capacity

\* "Mis Turnos Reservados": the rows that carry the Cancelar button.
IsReservedRow(shift, u) ==
  /\ shift.state = "live"
  /\ Includes(shift.bookedClients, u)

BookShiftCheck(booked, capacity, u) ==
  IF Includes(booked, u) THEN "AlreadyBooked"
  ELSE IF Whole(Len(booked)) >= capacity THEN "CapacityExceeded"
  ELSE "ok"

\* The end user books itself: the id written is the account id.
handleBookShift(u, s) ==
  /\ IsAvailableRow(cdShifts[u][s], u)
  /\ LET shift  == cdShifts[u][s]
         booked == shift.bookedClients
         check  == BookShiftCheck(booked, shift.capacity, u)
     IN  IF check # "ok"
         THEN /\ lastOp' = Op("handleBookShift", s, u, check)
              /\ UNCHANGED shiftsDb
         ELSE IF CanUpdateShift(s)
         THEN /\ shiftsDb' = UpdateBooked(s, Append(booked, u))
              /\ lastOp' = Op("handleBookShift", s, u, "ok")
         ELSE /\ lastOp' = Op("handleBookShift", s, u, "error")
              /\ UNCHANGED shiftsDb
  /\ UNCHANGED <<clientsDb, paymentsDb, modalitiesDb, inFlight, sessionVars, farVars>>

handleUnbookShift(u, s) ==
  /\ IsReservedRow(cdShifts[u][s], u)
  /\ LET updatedBookedClients == FilterOut(cdShifts[u][s].bookedClients, u)
     IN  IF CanUpdateShift(s)
         THEN /\ shiftsDb' = UpdateBooked(s, updatedBookedClients)
              /\ lastOp' = Op("handleUnbookShift", s, u, "ok")
         ELSE /\ lastOp' = Op("handleUnbookShift", s, u, "error")
              /\ UNCHANGED shiftsDb
  /\ UNCHANGED <<clientsDb, paymentsDb, modalitiesDb, inFlight, sessionVars, farVars>>

\* ---------------------------------------------------------- the tenant
\* A tenant with a roster of two clients, the first linked to account u1,
\* one modality, and no shift yet; the administrator is on the Shifts view.
NoClient == [live |-> FALSE, associatedUserUid |-> "", currentModalityId |-> ""]
NoPayment == [live |-> FALSE, clientId |-> "", amount |-> 0,
              paymentMonth |-> 0, paymentYear |-> 0]

InitRoster ==
  [c \in ClientIds |->
     [live |-> TRUE, associatedUserUid |-> IF c = "c1" THEN "u1" ELSE "",
      currentModalityId |-> ""]]

\* The state of the parts of the program a specification leaves alone.
NoDate == [fullYear |-> 0, month0 |-> 0, date |-> 0]
NoRender == [date |-> NoDate, status |-> [c \in ClientIds |-> ""], overdue |-> 0]

PayIdle ==
  /\ today = NoDate
  /\ viewPayments = [p \in PaymentIds |-> NoPayment]
  /\ rendered = NoRender

ModIdle == modDel = [pc |-> "idle", id |-> ""]

AcctIdle ==
  /\ usersDb = <<>>
  /\ rosters = <<>>
  /\ resolver = <<>>
  /\ reg = <<>>

FarInit == PayIdle /\ ModIdle /\ AcctIdle

\* A tenant with an empty store, the administrator on the Dashboard.
StoreIdle ==
  /\ shiftsDb = [s \in ShiftIds |-> BlankShift]
  /\ clientsDb = [c \in ClientIds |-> NoClient]
  /\ paymentsDb = [p \in PaymentIds |-> NoPayment]
  /\ modalitiesDb = {}
  /\ inFlight = {}
  /\ adminView = "dashboard"
  /\ adminShifts = [s \in ShiftIds |-> BlankShift]
  /\ cdAdmin = [u \in ClientUids |-> FALSE]
  /\ cdShifts = [u \in ClientUids |-> [s \in ShiftIds |-> BlankShift]]
  /\ delState = [pc |-> "idle", id |-> ""]

Init ==
  /\ shiftsDb = [s \in ShiftIds |-> BlankShift]
  /\ clientsDb = InitRoster
  /\ paymentsDb = [p \in PaymentIds |-> NoPayment]
  /\ modalitiesDb = {"m1"}
  /\ inFlight = {}
  /\ adminView = "shifts"
  /\ adminShifts = [s \in ShiftIds |-> BlankShift]
  /\ cdAdmin = [u \in ClientUids |-> FALSE]
  /\ cdShifts = [u \in ClientUids |-> [s \in ShiftIds |-> BlankShift]]
  /\ delState = [pc |-> "idle", id |-> ""]
  /\ lastOp = Quiet
  /\ FarInit

\* The administrator and one end user at work on the shifts of a tenant, the
\* shift form given whole capacities.
Next ==
  \/ AdminDeliver
  \/ \E h \in BOOLEAN, k \in WholeCapacities, m \in modalitiesDb \cup {""} :
       handleAddShift(h, k, m)
  \/ \E s \in ShiftIds, h \in BOOLEAN, k \in WholeCapacities,
        m \in modalitiesDb \cup {""} : handleUpdateShift(s, h, k, m)
  \/ \E s \in ShiftIds : confirmDeleteShift(s)
  \/ \E s \in ShiftIds, c \in ClientIds \cup {""} : handleBookClient(s, c)
  \/ \E s \in ShiftIds, c \in BookIds : handleRemoveClientFromShift(s, c)
  \/ \E u \in ClientUids : cdMount(u)
  \/ \E u \in ClientUids : cdDeliver(u)
  \/ \E u \in ClientUids, s \in ShiftIds : handleBookShift(u, s)
  \/ \E u \in ClientUids, s \in ShiftIds : handleUnbookShift(u, s)

Spec == Init /\ [][Next]_vars

\* ------------------------------------------------ shift booking claims
LiveShifts == {s \in ShiftIds : shiftsDb[s].state = "live"}

NoRepeat(seq) ==
  \A i, j \in 1..Len(seq) : i # j => seq[i] # seq[j]

\* C1: in every reachable state of the store, every shift holds at most
\* capacity entries in bookedClients.
C1_BookedWithinCapacity ==
  \A s \in LiveShifts :
    Whole(Len(shiftsDb[s].bookedClients)) <= shiftsDb[s].capacity

\* C2: in every reachable state of the store, no shift's bookedClients holds
\* the same id twice.
C2_NoDuplicateBooking ==
  \A s \in LiveShifts : NoRepeat(shiftsDb[s].bookedClients)

\* C2 witness: the store holds an administrator's and an end user's booking
\* in one shift, the last of them written from a snapshot that is behind
\* the store.
C2_Witness ==
  \E s \in LiveShifts :
    /\ Len(shiftsDb[s].bookedClients) = 2
    /\ Includes(shiftsDb[s].bookedClients, "c1")
    /\ Includes(shiftsDb[s].bookedClients, "u1")
    /\ lastOp.op = "handleBookShift" /\ lastOp.result = "ok"
    /\ adminShifts[s] # shiftsDb[s]
    /\ cdShifts["u1"][s] # shiftsDb[s]

\* The administrator's booking step for shift s, made from a snapshot in
\* which the shift is full (bookedClients.length = capacity).
BookOnFullSnapshot(s) ==
  /\ lastOp'.op = "handleBookClient"
  /\ lastOp'.id = s
  /\ lastOp'.arg # ""
  /\ adminShifts[s].state = "live"
  /\ Whole(Len(adminShifts[s].bookedClients)) = adminShifts[s].capacity

\* C3 as claimed: booking on a full shift fails with CapacityExceeded for
\* every client id, one already booked included, and writes nothing.  The
\* snapshot is the stored document here, so the shift is full in both.
C3_FullAlwaysCapacityExceeded ==
  [][\A s \in ShiftIds :
       (BookOnFullSnapshot(s) /\ adminShifts[s] = shiftsDb[s])
         => (lastOp'.result = "CapacityExceeded" /\ shiftsDb' = shiftsDb)]_vars

\* C3 amended: booking on a shift that is full in the caller's snapshot
\* writes nothing; it fails with AlreadyBooked when the id is in that
\* snapshot's bookedClients, and with CapacityExceeded otherwise.
C3_FullRejectedNoWrite ==
  [][\A s \in ShiftIds :
       BookOnFullSnapshot(s)
         => /\ shiftsDb' = shiftsDb
            /\ lastOp'.result =
                 IF Includes(adminShifts[s].bookedClients, lastOp'.arg)
                 THEN "AlreadyBooked" ELSE "CapacityExceeded"]_vars

\* C3 witness: a booking of a client that is not in the full shift was
\* turned down with CapacityExceeded.
C3_Witness ==
  \E s \in LiveShifts :
    /\ lastOp = Op("handleBookClient", s, "c2", "CapacityExceeded")
    /\ adminShifts[s].state = "live"
    /\ Whole(Len(adminShifts[s].bookedClients)) = adminShifts[s].capacity
    /\ shiftsDb[s].bookedClients = adminShifts[s].bookedClients

\* C4: a booking of a client id that the stored shift already holds (a
\* second call for the same id) fails with AlreadyBooked and leaves the
\* stored bookedClients at the size it had.
C4_SecondBookingAlreadyBooked ==
  [][\A s \in ShiftIds :
       ( /\ lastOp'.op = "handleBookClient"
         /\ lastOp'.id = s
         /\ lastOp'.arg # ""
         /\ shiftsDb[s].state = "live"
         /\ Includes(shiftsDb[s].bookedClients, lastOp'.arg) )
         => /\ lastOp'.result = "AlreadyBooked"
            /\ Len(shiftsDb'[s].bookedClients) = Len(shiftsDb[s].bookedClients)]_vars

\* C5: an unbooking of an id that the stored shift does not hold leaves the
\* stored document as it was and reports no error.
C5_UnbookAbsentIsNoOp ==
  [][\A s \in ShiftIds :
       ( /\ lastOp'.op \in {"handleRemoveClientFromShift", "handleUnbookShift"}
         /\ lastOp'.id = s
         /\ shiftsDb[s].state = "live"
         /\ ~Includes(shiftsDb[s].bookedClients, lastOp'.arg) )
         => (shiftsDb' = shiftsDb /\ lastOp'.result = "ok")]_vars

\* The tenant whose shifts keep the capacity they were created with: the
\* handlers of Spec without handleUpdateShift.
NextBooking ==
  \/ AdminDeliver
  \/ \E h \in BOOLEAN, k \in Capacities, m \in modalitiesDb \cup {""} :
       handleAddShift(h, k, m)
  \/ \E s \in ShiftIds : confirmDeleteShift(s)
  \/ \E s \in ShiftIds, c \in ClientIds \cup {""} : handleBookClient(s, c)
  \/ \E s \in ShiftIds, c \in BookIds : handleRemoveClientFromShift(s, c)
  \/ \E u \in ClientUids : cdMount(u)
  \/ \E u \in ClientUids : cdDeliver(u)
  \/ \E u \in ClientUids, s \in ShiftIds : handleBookShift(u, s)
  \/ \E u \in ClientUids, s \in ShiftIds : handleUnbookShift(u, s)

SpecBooking == Init /\ [][NextBooking]_vars

\* The step is a booking of shift s that its handler reported as written.
BookingWritten(s) ==
  /\ lastOp'.id = s
  /\ lastOp'.result = "ok"
  /\ lastOp'.op \in {"handleBookClient", "handleBookShift"}

\* What the caller of the booking step had as the shift's bookedClients.
CallerSnapshot(s) ==
  IF lastOp'.op = "handleBookClient"
  THEN adminShifts[s].bookedClients
  ELSE cdShifts[lastOp'.arg][s].bookedClients

BookingWrite(s) ==
  /\ lastOp'.id = s
  /\ lastOp'.op \in {"handleBookClient", "handleBookShift",
                     "handleRemoveClientFromShift", "handleUnbookShift"}
  /\ shiftsDb[s].state = "live"
  /\ shiftsDb'[s] # shiftsDb[s]

\* C16: a book or unbook write changes the stored bookedClients only in the
\* targeted id: every other id stored before the write is stored after it,
\* and no other id is added.
C16_WriteTouchesTargetOnly ==
  [][\A s \in ShiftIds :
       BookingWrite(s) =>
         \A x \in BookIds \ {lastOp'.arg} :
           Includes(shiftsDb'[s].bookedClients, x)
             <=> Includes(shiftsDb[s].bookedClients, x)]_vars

\* C17: in every reachable state, every element of a shift's bookedClients
\* is the id of a client document of the tenant's roster.
C17_BookedAreRosterClients ==
  \A s \in LiveShifts :
    \A i \in 1..Len(shiftsDb[s].bookedClients) :
      /\ shiftsDb[s].bookedClients[i] \in ClientIds
      /\ clientsDb[shiftsDb[s].bookedClients[i]].live

\* ------------------------------------------------------ shift form claims
\* The administrator alone on the Shifts view, the shift form given every
\* value of Capacities.
NextShiftForm ==
  \/ AdminDeliver
  \/ \E h \in BOOLEAN, k \in Capacities, m \in modalitiesDb \cup {""} :
       handleAddShift(h, k, m)
  \/ \E s \in ShiftIds, h \in BOOLEAN, k \in Capacities,
        m \in modalitiesDb \cup {""} : handleUpdateShift(s, h, k, m)
  \/ \E s \in ShiftIds : confirmDeleteShift(s)
  \/ \E s \in ShiftIds, c \in ClientIds \cup {""} : handleBookClient(s, c)
  \/ \E s \in ShiftIds, c \in BookIds : handleRemoveClientFromShift(s, c)

SpecShiftForm == Init /\ [][NextShiftForm]_vars

\* The shift form's capacity is below 1: "0" or "0.5".
BelowOne(capacity) == capacity < Whole(1)

\* C19: handleUpdateShift rejects the form, with no write, when date, time
\* or modalityId is missing or capacity is below 1; it never changes the
\* stored bookedClients, and on success it changes only capacity and
\* modalityId of the shift, to the values of the form.
C19_UpdateShiftValidatedAndFramed ==
  [][\A s \in ShiftIds, h \in BOOLEAN, k \in Capacities,
        m \in modalitiesDb \cup {""} :
       handleUpdateShift(s, h, k, m) =>
         /\ (~h \/ m = "" \/ BelowOne(k))
              => /\ lastOp'.result = "ValidationError"
                 /\ shiftsDb' = shiftsDb
         /\ shiftsDb'[s].bookedClients = shiftsDb[s].bookedClients
         /\ lastOp'.result = "ok"
              => shiftsDb' = [shiftsDb EXCEPT ![s].capacity = k,
                                               ![s].modalityId = m]]_vars

\* The part of C19 about what a successful update writes, on its own.
C19_UpdateWritesFormFieldsOnly ==
  [][\A s \in ShiftIds, h \in BOOLEAN, k \in Capacities,
        m \in modalitiesDb \cup {""} :
       handleUpdateShift(s, h, k, m) =>
         /\ shiftsDb'[s].bookedClients = shiftsDb[s].bookedClients
         /\ lastOp'.result = "ok"
              => shiftsDb' = [shiftsDb EXCEPT ![s].capacity = k,
                                               ![s].modalityId = m]]_vars

\* C20: handleAddShift fails with ValidationError and writes nothing when
\* date, time or modalityId is missing or capacity is below 1; otherwise it
\* creates exactly one shift, with the capacity and modality of the form and
\* an empty bookedClients.
C20_CreateShiftValidated ==
  [][\A h \in BOOLEAN, k \in Capacities, m \in modalitiesDb \cup {""} :
       handleAddShift(h, k, m) =>
         IF ~h \/ m = "" \/ BelowOne(k)
         THEN /\ lastOp'.result = "ValidationError"
              /\ shiftsDb' = shiftsDb
         ELSE /\ lastOp'.result = "ok"
              /\ \E s \in ShiftIds :
                   /\ shiftsDb[s].state = "unused"
                   /\ shiftsDb' = [shiftsDb EXCEPT ![s] =
                         [state |-> "live", capacity |-> k,
                          modalityId |-> m, bookedClients |-> <<>>]]]_vars

\* What handleAddShift does hold to: the same, with the code's own test
\* (capacity at most 0) in place of the claim's (capacity below 1).
C20_CreateShiftRejectsNonPositive ==
  [][\A h \in BOOLEAN, k \in Capacities, m \in modalitiesDb \cup {""} :
       handleAddShift(h, k, m) =>
         IF ~h \/ m = "" \/ k <= 0
         THEN /\ lastOp'.result = "ValidationError"
              /\ shiftsDb' = shiftsDb
         ELSE /\ lastOp'.result = "ok"
              /\ \E s \in ShiftIds :
                   /\ shiftsDb[s].state = "unused"
                   /\ shiftsDb' = [shiftsDb EXCEPT ![s] =
                         [state |-> "live", capacity |-> k,
                          modalityId |-> m, bookedClients |-> <<>>]]]_vars

\* A stored shift whose capacity is 0.5: the form was accepted with it.
StoredHalfCapacity ==
  \E s \in ShiftIds : shiftsDb[s].state = "live" /\ shiftsDb[s].capacity = 1

\* ------------------------------------------------------ Payment Ledger
\* The dates the clock is read at: the fields of a JavaScript Date, whose
\* getMonth() counts from 0.  The days straddle the 10th, the months the
\* turn of the year.
Years   == {2025, 2026}
Month0s == {0, 11}
DaysOfMonth == {10, 11}
ClockDates ==
  [fullYear : Years, month0 : Month0s, date : DaysOfMonth]

Earlier(a, b) ==
  \/ a.fullYear < b.fullYear
  \/ a.fullYear = b.fullYear /\ a.month0 < b.month0
  \/ a.fullYear = b.fullYear /\ a.month0 = b.month0 /\ a.date < b.date

\* What the payment form is given.
PayMonths  == {m + 1 : m \in Month0s}
PayAmounts == {-50, 0, 50}

LivePayments(db) == {db[p] : p \in {q \in PaymentIds : db[q].live}}

\* Dashboard.getPaymentStatus with > 10 read as >= 10.
DashboardGetPaymentStatusFrom10(payments, now, clientId) ==
  LET currentMonth == now.month0 + 1
      currentYear  == now.fullYear
      hasPaidThisMonth ==
        \E payment \in LivePayments(payments) :
          /\ payment.clientId = clientId
          /\ payment.paymentMonth = currentMonth
          /\ payment.paymentYear = currentYear
  IN  IF hasPaidThisMonth THEN "Al dia"
      ELSE IF now.date >= 10 THEN "Vencido" ELSE "Pendiente"

\* Dashboard.getPaymentStatus(clientId), over the view's payments and the
\* clock read at the call.
DashboardGetPaymentStatus(payments, now, clientId) ==
  LET currentMonth == now.month0 + 1
      currentYear  == now.fullYear
      dayOfMonth   == now.date
      hasPaidThisMonth ==
        \E payment \in LivePayments(payments) :
          /\ payment.clientId = clientId
          /\ payment.paymentMonth = currentMonth
          /\ payment.paymentYear = currentYear
  IN  IF hasPaidThisMonth THEN "Al dia"
      ELSE IF dayOfMonth > 10 THEN "Vencido" ELSE "Pendiente"

\* Clients.getPaymentStatus with getMonth() taken for the calendar month.
ClientsGetPaymentStatusMonth0(payments, now, clientId) ==
  LET hasPaidThisMonth ==
        \E payment \in LivePayments(payments) :
          /\ payment.clientId = clientId
          /\ payment.paymentMonth = now.month0
          /\ payment.paymentYear = now.fullYear
  IN  IF hasPaidThisMonth THEN "Al dia"
      ELSE IF now.date > 10 THEN "Vencido" ELSE "Pendiente"

\* Clients.getPaymentStatus(clientId).
ClientsGetPaymentStatus(payments, now, clientId) ==
  LET currentMonth == now.month0 + 1
      currentYear  == now.fullYear
      dayOfMonth   == now.date
      hasPaidThisMonth ==
        \E payment \in LivePayments(payments) :
          /\ payment.clientId = clientId
          /\ payment.paymentMonth = currentMonth
          /\ payment.paymentYear = currentYear
  IN  IF hasPaidThisMonth THEN "Al dia"
      ELSE IF dayOfMonth > 10 THEN "Vencido" ELSE "Pendiente"

\* What a view shows when it renders: the Clients table shows each client's
\* status, the Dashboard the number of clients whose status is "Vencido".
RenderView(view, payments, now) ==
  IF view = "clients"
  THEN [date |-> now,
        status |-> [c \in ClientIds |-> ClientsGetPaymentStatus(payments, now, c)],
        overdue |-> 0]
  ELSE IF view = "dashboard"
  THEN [date |-> now,
        status |-> [c \in ClientIds |-> ""],
        overdue |-> Cardinality({c \in ClientIds :
                      /\ clientsDb[c].live
                      /\ DashboardGetPaymentStatus(payments, now, c) = "Vencido"})]
  ELSE NoRender

payFrame == <<shiftsDb, clientsDb, modalitiesDb, inFlight, adminShifts, cdAdmin,
              cdShifts, delState, modDel, acctVars>>

\* setCurrentView(v): the view mounts with payments = [] and renders.
PaySwitchView(v) ==
  /\ v # adminView
  /\ adminView' = v
  /\ viewPayments' = [p \in PaymentIds |-> NoPayment]
  /\ rendered' = RenderView(v, viewPayments', today)
  /\ lastOp' = Quiet
  /\ UNCHANGED <<paymentsDb, today, payFrame>>

\* onSnapshot(paymentsRef, ...): setPayments and the render that follows.
PaymentsDeliver ==
  /\ viewPayments # paymentsDb
  /\ viewPayments' = paymentsDb
  /\ rendered' = RenderView(adminView, viewPayments', today)
  /\ lastOp' = Quiet
  /\ UNCHANGED <<paymentsDb, today, adminView, payFrame>>

\* The clock moves on; nothing renders because of it.
ClockTick ==
  /\ \E d \in ClockDates : Earlier(today, d) /\ today' = d
  /\ lastOp' = Quiet
  /\ UNCHANGED <<paymentsDb, viewPayments, rendered, adminView, payFrame>>

\* Any other state change of the mounted view renders it again.
Rerender ==
  /\ rendered # RenderView(adminView, viewPayments, today)
  /\ rendered' = RenderView(adminView, viewPayments, today)
  /\ lastOp' = Quiet
  /\ UNCHANGED <<paymentsDb, viewPayments, today, adminView, payFrame>>

\* addDoc gives the new document an id no document has or had (so no write
\* in flight names it); ids are opaque, so the model takes the first free
\* one.
FreePaymentIds ==
  {p \in PaymentIds :
     /\ ~paymentsDb[p].live
     /\ \A w \in inFlight : ~(w.kind = "deletePayment" /\ w.id = p)}
PaymentRank(p) == CHOOSE i \in 1..Len(PaymentSeq) : PaymentSeq[i] = p
FreshPaymentId ==
  CHOOSE p \in FreePaymentIds :
    \A q \in FreePaymentIds : PaymentRank(p) <= PaymentRank(q)

\* The two form checks of handleAddPayment without the tests on the amount.
PaymentFormInvalidNoAmount(clientId, amount, month, year) ==
  clientId = "" \/ month = 0 \/ year = 0

\* The two form checks of handleAddPayment; amount is the number parseFloat
\* gives for the field's text, month and year are 0 when unset.
PaymentFormInvalid(clientId, amount, month, year) ==
  \/ clientId = ""
  \/ amount <= 0
  \/ month = 0
  \/ year = 0

handleAddPayment(clientId, amount, month, year) ==
  /\ adminView = "payments"
  /\ FreePaymentIds # {}
  /\ clientId # "" => clientsDb[clientId].live
  /\ IF PaymentFormInvalid(clientId, amount, month, year)
     THEN /\ lastOp' = Op("handleAddPayment", "", clientId, "ValidationError")
          /\ UNCHANGED paymentsDb
     ELSE \E p \in PaymentIds :
            /\ p = FreshPaymentId
            /\ paymentsDb' = [paymentsDb EXCEPT ![p] =
                  [live |-> TRUE, clientId |-> clientId, amount |-> amount,
                   paymentMonth |-> month, paymentYear |-> year]]
            /\ lastOp' = Op("handleAddPayment", p, clientId, "ok")
  /\ UNCHANGED <<today, viewPayments, rendered, adminView, payFrame>>

\* One delete button per listed payment.
confirmDeletePayment(p) ==
  /\ adminView = "payments"
  /\ viewPayments[p].live
  /\ paymentsDb' = [paymentsDb EXCEPT ![p] = NoPayment]
  /\ lastOp' = Op("confirmDeletePayment", p, "", "ok")
  /\ UNCHANGED <<today, viewPayments, rendered, adminView, payFrame>>

InitPay ==
  /\ shiftsDb = [s \in ShiftIds |-> BlankShift]
  /\ clientsDb = InitRoster
  /\ paymentsDb = [p \in PaymentIds |-> NoPayment]
  /\ modalitiesDb = {"m1"}
  /\ inFlight = {}
  /\ adminView = "dashboard"
  /\ adminShifts = [s \in ShiftIds |-> BlankShift]
  /\ cdAdmin = [u \in ClientUids |-> FALSE]
  /\ cdShifts = [u \in ClientUids |-> [s \in ShiftIds |-> BlankShift]]
  /\ delState = [pc |-> "idle", id |-> ""]
  /\ today \in ClockDates
  /\ viewPayments = [p \in PaymentIds |-> NoPayment]
  /\ rendered = RenderView("dashboard", viewPayments, today)
  /\ ModIdle /\ AcctIdle
  /\ lastOp = Quiet

NextPay ==
  \/ \E v \in {"dashboard", "clients", "payments"} : PaySwitchView(v)
  \/ PaymentsDeliver
  \/ ClockTick
  \/ Rerender
  \/ \E c \in ClientIds \cup {""}, a \in PayAmounts, m \in PayMonths, y \in Years :
       handleAddPayment(c, a, m, y)
  \/ \E p \in PaymentIds : confirmDeletePayment(p)

SpecPay == InitPay /\ [][NextPay]_vars

\* The rule of the specification: Paid when a payment of the client is
\* tagged with the calendar month and year of the date, else Overdue after
\* the 10th, else Pending.
StatusRule(payments, now, clientId) ==
  IF \E p \in PaymentIds :
       /\ payments[p].live
       /\ payments[p].clientId = clientId
       /\ payments[p].paymentMonth = now.month0 + 1
       /\ payments[p].paymentYear = now.fullYear
  THEN "Al dia"
  ELSE IF now.date > 10 THEN "Vencido" ELSE "Pendiente"

\* C6: the status a view shows is Paid exactly when a payment of the client
\* for the month and year of the date it was computed at is in the view's
\* payments, else Overdue exactly after the 10th, else Pending; the
\* Dashboard counts the clients the rule calls Overdue.
C6_PaymentStatusRule ==
  /\ adminView = "clients" =>
       \A c \in ClientIds :
         rendered.status[c] = StatusRule(viewPayments, rendered.date, c)
  /\ adminView = "dashboard" =>
       rendered.overdue =
         Cardinality({c \in ClientIds :
            clientsDb[c].live /\ StatusRule(viewPayments, rendered.date, c) = "Vencido"})

\* C6 witness: on the 10th of a month the Clients view shows a client that
\* paid this month as Paid and one whose only payment is for another period
\* as Pending.
C6_Witness ==
  /\ adminView = "clients"
  /\ rendered.date.date = 10
  /\ rendered.status["c1"] = "Al dia"
  /\ rendered.status["c2"] = "Pendiente"
  /\ \E p \in PaymentIds : viewPayments[p].live /\ viewPayments[p].clientId = "c2"

\* ------------------------------------------- Clients: cascading delete
cascadeFrame == <<modalitiesDb, cdAdmin, cdShifts, farVars>>

\* setCurrentView: the view that mounts starts with shifts = [].  The
\* confirmation modal covers the navigation while a delete runs.
SwitchView(v) ==
  /\ v # adminView
  /\ delState.pc = "idle"
  /\ modDel.pc = "idle"
  /\ adminView' = v
  /\ adminShifts' = [s \in ShiftIds |-> BlankShift]
  /\ lastOp' = Quiet
  /\ UNCHANGED <<storeVars, cdAdmin, cdShifts, delState, farVars>>

\* confirmDeleteClient up to its first await: deleteDoc of the client.
DeleteClientDoc(c) ==
  /\ adminView = "clients"
  /\ delState.pc = "idle"
  /\ clientsDb[c].live                       \* one delete button per listed client
  /\ clientsDb' = [clientsDb EXCEPT ![c] = NoClient]
  /\ delState' = [pc |-> "payments", id |-> c]
  /\ lastOp' = Quiet
  /\ UNCHANGED <<shiftsDb, paymentsDb, inFlight, adminView, adminShifts, cascadeFrame>>

\* The payments query of confirmDeleteClient answering with every payment of
\* the tenant.
DeleteClientPaymentsAll ==
  /\ delState.pc = "payments"
  /\ inFlight' = inFlight \cup
       {[kind |-> "deletePayment", id |-> p, arr |-> <<>>, client |-> delState.id] :
          p \in {q \in PaymentIds : paymentsDb[q].live}}
  /\ delState' = [delState EXCEPT !.pc = "shifts"]
  /\ lastOp' = Quiet
  /\ UNCHANGED <<shiftsDb, clientsDb, paymentsDb, adminView, adminShifts, cascadeFrame>>

\* The payments query answers; forEach(async ...) issues one deleteDoc per
\* payment of the client and awaits none of them.
DeleteClientPayments ==
  /\ delState.pc = "payments"
  /\ inFlight' = inFlight \cup
       {[kind |-> "deletePayment", id |-> p, arr |-> <<>>, client |-> delState.id] :
          p \in {q \in PaymentIds :
                   paymentsDb[q].live /\ paymentsDb[q].clientId = delState.id}}
  /\ delState' = [delState EXCEPT !.pc = "shifts"]
  /\ lastOp' = Quiet
  /\ UNCHANGED <<shiftsDb, clientsDb, paymentsDb, adminView, adminShifts, cascadeFrame>>

\* The shifts query (array-contains) answers; forEach(async ...) issues one
\* updateDoc per shift, carrying the array of the query's answer without the
\* client, awaits none, and the handler reports success and closes the modal.
DeleteClientShifts ==
  /\ delState.pc = "shifts"
  /\ inFlight' = inFlight \cup
       {[kind |-> "updateShift", id |-> s,
         arr |-> FilterOut(shiftsDb[s].bookedClients, delState.id),
         client |-> delState.id] :
          s \in {x \in ShiftIds :
                   /\ shiftsDb[x].state = "live"
                   /\ Includes(shiftsDb[x].bookedClients, delState.id)}}
  /\ delState' = [pc |-> "idle", id |-> ""]
  /\ lastOp' = Op("confirmDeleteClient", delState.id, "", "ok")
  /\ UNCHANGED <<shiftsDb, clientsDb, paymentsDb, adminView, adminShifts, cascadeFrame>>

\* A write that was issued and not awaited reaches the store.  An update of a
\* document that is gone is rejected, and nobody reads the rejection.
Land(w) ==
  /\ w \in inFlight
  /\ w.kind \in {"deletePayment", "updateShift"}
  /\ inFlight' = inFlight \ {w}
  /\ IF w.kind = "deletePayment"
     THEN /\ paymentsDb' = [paymentsDb EXCEPT ![w.id] = NoPayment]
          /\ UNCHANGED shiftsDb
     ELSE /\ shiftsDb' = IF CanUpdateShift(w.id) THEN UpdateBooked(w.id, w.arr)
                         ELSE shiftsDb
          /\ UNCHANGED paymentsDb
  /\ lastOp' = Quiet
  /\ UNCHANGED <<clientsDb, modalitiesDb, sessionVars, farVars>>

\* The tenant with a shift of the largest capacity, and two payments of the
\* client c1.
InitCascade ==
  /\ shiftsDb = [s \in ShiftIds |->
       [state |-> "live", capacity |-> Whole(MaxCapacity), modalityId |-> "m1",
        bookedClients |-> <<>>]]
  /\ clientsDb = InitRoster
  /\ paymentsDb = [p \in PaymentIds |->
       [live |-> TRUE, clientId |-> "c1", amount |-> 50,
        paymentMonth |-> 1, paymentYear |-> 2025]]
  /\ modalitiesDb = {"m1"}
  /\ inFlight = {}
  /\ adminView = "shifts"
  /\ adminShifts = [s \in ShiftIds |-> BlankShift]
  /\ cdAdmin = [u \in ClientUids |-> FALSE]
  /\ cdShifts = [u \in ClientUids |-> [s \in ShiftIds |-> BlankShift]]
  /\ delState = [pc |-> "idle", id |-> ""]
  /\ lastOp = Quiet
  /\ FarInit

NextCascade ==
  \/ \E v \in {"shifts", "clients"} : SwitchView(v)
  \/ \E c \in ClientIds : DeleteClientDoc(c)
  \/ DeleteClientPayments
  \/ DeleteClientShifts
  \/ \E w \in inFlight : Land(w)
  \/ AdminDeliver
  \/ \E s \in ShiftIds, c \in ClientIds \cup {""} : handleBookClient(s, c)
  \/ \E s \in ShiftIds, c \in BookIds : handleRemoveClientFromShift(s, c)
  \/ \E u \in ClientUids : cdMount(u)
  \/ \E u \in ClientUids : cdDeliver(u)
  \/ \E u \in ClientUids, s \in ShiftIds : handleBookShift(u, s)
  \/ \E u \in ClientUids, s \in ShiftIds : handleUnbookShift(u, s)

SpecCascade == InitCascade /\ [][NextCascade]_vars

\* C7: once deleteClient(id) has reported success, the store holds no
\* payment of id, no shift that books id, and no client document id.
C7_DeleteLeavesNothing ==
  (lastOp.op = "confirmDeleteClient" /\ lastOp.result = "ok") =>
     /\ ~clientsDb[lastOp.id].live
     /\ \A p \in PaymentIds :
          ~(paymentsDb[p].live /\ paymentsDb[p].clientId = lastOp.id)
     /\ \A s \in LiveShifts : ~Includes(shiftsDb[s].bookedClients, lastOp.id)

\* The account the roster links client c to; no handler of the cascade
\* specification rewrites the link.
RosterAccount(c) == InitRoster[c].associatedUserUid

\* The delete of client c has finished: the document is gone, the handler
\* has returned and none of the writes it issued is still on its way.
DeleteFinished(c) ==
  /\ ~clientsDb[c].live
  /\ delState.pc = "idle"
  /\ \A w \in inFlight : w.client # c

\* C27: once the delete of a client linked to an account has finished with
\* no store failure, no shift of the tenant holds a booking of that person,
\* neither under the client id nor under the account uid that self-service
\* bookings are stored under.
C27_DeleteRemovesSelfBookings ==
  \A c \in ClientIds :
    (RosterAccount(c) # "" /\ DeleteFinished(c)) =>
       \A s \in LiveShifts :
         /\ ~Includes(shiftsDb[s].bookedClients, c)
         /\ ~Includes(shiftsDb[s].bookedClients, RosterAccount(c))

\* The store rejects a write that was issued and not awaited.  The promise
\* of the forEach callback is rejected and nobody holds it: no catch block
\* runs, no message is shown; the rejection stays unhandled.
Reject(w) ==
  /\ w \in inFlight
  /\ w.kind \in {"deletePayment", "updateShift"}
  /\ inFlight' = (inFlight \ {w}) \cup {[w EXCEPT !.kind = "rejected"]}
  /\ lastOp' = Quiet
  /\ UNCHANGED <<shiftsDb, clientsDb, paymentsDb, modalitiesDb, sessionVars, farVars>>

\* The store rejects the awaited deleteDoc of the client: the catch block
\* shows the error, the finally block closes the modal.
DeleteClientDocFails(c) ==
  /\ adminView = "clients"
  /\ delState.pc = "idle"
  /\ clientsDb[c].live
  /\ lastOp' = Op("confirmDeleteClient", c, "", "error")
  /\ UNCHANGED <<storeVars, sessionVars, farVars>>

\* The store rejects one of the two awaited getDocs: catch and finally.
DeleteClientQueryFails ==
  /\ delState.pc \in {"payments", "shifts"}
  /\ delState' = [pc |-> "idle", id |-> ""]
  /\ lastOp' = Op("confirmDeleteClient", delState.id, "", "error")
  /\ UNCHANGED <<storeVars, adminView, adminShifts, cascadeFrame>>

NextCascadeFail ==
  \/ \E v \in {"shifts", "clients"} : SwitchView(v)
  \/ \E c \in ClientIds : DeleteClientDoc(c)
  \/ \E c \in ClientIds : DeleteClientDocFails(c)
  \/ DeleteClientPayments
  \/ DeleteClientShifts
  \/ DeleteClientQueryFails
  \/ \E w \in inFlight : Land(w)
  \/ \E w \in inFlight : Reject(w)
  \/ AdminDeliver
  \/ \E s \in ShiftIds, c \in ClientIds \cup {""} : handleBookClient(s, c)
  \/ \E s \in ShiftIds, c \in BookIds : handleRemoveClientFromShift(s, c)

SpecCascadeFail == InitCascade /\ [][NextCascadeFail]_vars

\* The cascade writes of the delete of client c that the store rejected.
RejectedWrites(c) == {w \in inFlight : w.kind = "rejected" /\ w.client = c}

\* C15: when a cascade write of deleteClient(id) failed after the client
\* document was deleted, the client document stays deleted and the run does
\* not report success.
C15_CascadeFailureReported ==
  /\ \A c \in ClientIds : RejectedWrites(c) # {} => ~clientsDb[c].live
  /\ (lastOp.op = "confirmDeleteClient" /\ lastOp.result = "ok")
       => RejectedWrites(lastOp.id) = {}

\* ------------------------------------------------- Clients: the roster
\* The accounts the associatedUserUid select of the client form lists.
AppUserUids == {"u1", "u2"}

rosterFrame == <<shiftsDb, paymentsDb, modalitiesDb, inFlight, sessionVars, farVars>>

\* addDoc(clients, {name, ..., associatedUserUid: selected || null}) under a
\* fresh document id; the only test is that the name is filled in.
handleAddClient(hasName, uid) ==
  /\ adminView = "clients"
  /\ IF ~hasName
     THEN /\ lastOp' = Op("handleAddClient", "", uid, "ValidationError")
          /\ UNCHANGED clientsDb
     ELSE \E c \in ClientIds :
            /\ ~clientsDb[c].live
            /\ clientsDb' = [clientsDb EXCEPT ![c] =
                  [live |-> TRUE, associatedUserUid |-> uid,
                   currentModalityId |-> ""]]
            /\ lastOp' = Op("handleAddClient", c, uid, "ok")
  /\ UNCHANGED rosterFrame

\* handleUpdateClient writing the whole document, as setDoc would.
handleUpdateClientOverwrite(c, hasName, uid) ==
  /\ adminView = "clients"
  /\ clientsDb[c].live
  /\ IF ~hasName
     THEN /\ lastOp' = Op("handleUpdateClient", c, uid, "ValidationError")
          /\ UNCHANGED clientsDb
     ELSE /\ clientsDb' = [clientsDb EXCEPT ![c] =
                [live |-> TRUE, associatedUserUid |-> uid,
                 currentModalityId |-> ""]]
          /\ lastOp' = Op("handleUpdateClient", c, uid, "ok")
  /\ UNCHANGED <<shiftsDb, paymentsDb, modalitiesDb, inFlight, sessionVars, farVars>>

\* updateDoc(clientRef, {name, phone, email, associatedUserUid: selected ||
\* null}) on a client of the list: the fields it does not name stay.
handleUpdateClient(c, hasName, uid) ==
  /\ adminView = "clients"
  /\ clientsDb[c].live
  /\ IF ~hasName
     THEN /\ lastOp' = Op("handleUpdateClient", c, uid, "ValidationError")
          /\ UNCHANGED clientsDb
     ELSE /\ clientsDb' = [clientsDb EXCEPT ![c].associatedUserUid = uid]
          /\ lastOp' = Op("handleUpdateClient", c, uid, "ok")
  /\ UNCHANGED rosterFrame

\* A tenant with no client yet.
InitClients == StoreIdle /\ FarInit /\ lastOp = Quiet

NextClients ==
  \/ \E v \in {"dashboard", "clients"} : SwitchView(v)
  \/ \E n \in BOOLEAN, u \in AppUserUids \cup {""} : handleAddClient(n, u)
  \/ \E c \in ClientIds, n \in BOOLEAN, u \in AppUserUids \cup {""} :
       handleUpdateClient(c, n, u)

SpecClients == InitClients /\ [][NextClients]_vars

\* C18: in every reachable state, no two client documents of the roster
\* carry the same non-null associatedUserUid.
C18_OneClientPerAccount ==
  \A c, d \in ClientIds :
    (c # d /\ clientsDb[c].live /\ clientsDb[d].live
       /\ clientsDb[c].associatedUserUid # "")
      => clientsDb[c].associatedUserUid # clientsDb[d].associatedUserUid

\* ---------------------------------------------------- Modality Catalog
modFrame == <<shiftsDb, clientsDb, paymentsDb, inFlight, adminView, adminShifts,
              cdAdmin, cdShifts, delState, payVars, acctVars>>

\* The query of confirmDeleteModality with no shift ever found.
ShiftsWithModalityNone(id) == {}

\* query(shifts, where("modalityId", "==", id)): the shifts that reference
\* the modality.
ShiftsWithModality(id) ==
  {s \in ShiftIds : shiftsDb[s].state = "live" /\ shiftsDb[s].modalityId = id}

\* One delete button per listed modality; it opens the confirmation modal.
handleDeleteModalityClick(id) ==
  /\ adminView = "modalities"
  /\ modDel.pc = "idle"
  /\ id \in modalitiesDb
  /\ modDel' = [pc |-> "modal", id |-> id]
  /\ lastOp' = Quiet
  /\ UNCHANGED <<modalitiesDb, modFrame>>

\* The modal's Cancelar button.
cancelDeleteModality ==
  /\ modDel.pc = "modal"
  /\ modDel' = [pc |-> "idle", id |-> ""]
  /\ lastOp' = Quiet
  /\ UNCHANGED <<modalitiesDb, modFrame>>

\* confirmDeleteModality up to the answer of its query: with a referencing
\* shift it shows the conflict and returns, otherwise it goes on to delete.
confirmDeleteModalityQuery ==
  /\ modDel.pc = "modal"
  /\ IF ShiftsWithModality(modDel.id) # {}
     THEN /\ modDel' = [pc |-> "idle", id |-> ""]
          /\ lastOp' = Op("confirmDeleteModality", modDel.id, "", "ReferentialConflict")
     ELSE /\ modDel' = [modDel EXCEPT !.pc = "delete"]
          /\ lastOp' = Quiet
  /\ UNCHANGED <<modalitiesDb, modFrame>>

\* deleteDoc of the modality, the success message, and the finally block.
confirmDeleteModalityDelete ==
  /\ modDel.pc = "delete"
  /\ modalitiesDb' = modalitiesDb \ {modDel.id}
  /\ modDel' = [pc |-> "idle", id |-> ""]
  /\ lastOp' = Op("confirmDeleteModality", modDel.id, "", "ok")
  /\ UNCHANGED modFrame

\* handleAddShift in a second signed-in session of the administrator (another
\* tab or device) whose Shifts view is mounted; its modality select lists
\* the stored modalities.
handleAddShiftPeer(hasDateTime, capacity, modalityId) ==
  /\ IF ShiftFormInvalid(hasDateTime, capacity, modalityId)
     THEN /\ lastOp' = Op("handleAddShift", "", "", "ValidationError")
          /\ UNCHANGED shiftsDb
     ELSE \E s \in ShiftIds :
            /\ shiftsDb[s].state = "unused"
            /\ shiftsDb' = [shiftsDb EXCEPT ![s] =
                  [state |-> "live", capacity |-> capacity,
                   modalityId |-> modalityId, bookedClients |-> <<>>]]
            /\ lastOp' = Op("handleAddShift", s, "", "ok")
  /\ UNCHANGED <<clientsDb, paymentsDb, modalitiesDb, inFlight, sessionVars, farVars>>

\* handleUpdateShift in that second session, on a shift of its list.
handleUpdateShiftPeer(s, hasDateTime, capacity, modalityId) ==
  /\ shiftsDb[s].state = "live"
  /\ IF ShiftFormInvalid(hasDateTime, capacity, modalityId)
     THEN /\ lastOp' = Op("handleUpdateShift", s, "", "ValidationError")
          /\ UNCHANGED shiftsDb
     ELSE /\ shiftsDb' = [shiftsDb EXCEPT ![s].capacity = capacity,
                                            ![s].modalityId = modalityId]
          /\ lastOp' = Op("handleUpdateShift", s, "", "ok")
  /\ UNCHANGED <<clientsDb, paymentsDb, modalitiesDb, inFlight, sessionVars, farVars>>

InitModality ==
  /\ shiftsDb = [s \in ShiftIds |-> BlankShift]
  /\ clientsDb = InitRoster
  /\ paymentsDb = [p \in PaymentIds |-> NoPayment]
  /\ modalitiesDb = ModalityIds
  /\ inFlight = {}
  /\ adminView = "shifts"
  /\ adminShifts = [s \in ShiftIds |-> BlankShift]
  /\ cdAdmin = [u \in ClientUids |-> FALSE]
  /\ cdShifts = [u \in ClientUids |-> [s \in ShiftIds |-> BlankShift]]
  /\ delState = [pc |-> "idle", id |-> ""]
  /\ lastOp = Quiet
  /\ FarInit

NextModality ==
  \/ \E v \in {"shifts", "modalities"} : SwitchView(v)
  \/ \E id \in ModalityIds : handleDeleteModalityClick(id)
  \/ cancelDeleteModality
  \/ confirmDeleteModalityQuery
  \/ confirmDeleteModalityDelete
  \/ AdminDeliver
  \/ \E h \in BOOLEAN, k \in Capacities, m \in modalitiesDb \cup {""} :
       handleAddShift(h, k, m)
  \/ \E s \in ShiftIds, h \in BOOLEAN, k \in Capacities,
        m \in modalitiesDb \cup {""} : handleUpdateShift(s, h, k, m)
  \/ \E s \in ShiftIds : confirmDeleteShift(s)
  \/ \E h \in BOOLEAN, k \in Capacities, m \in modalitiesDb \cup {""} :
       handleAddShiftPeer(h, k, m)
  \/ \E s \in ShiftIds, h \in BOOLEAN, k \in Capacities,
        m \in modalitiesDb \cup {""} : handleUpdateShiftPeer(s, h, k, m)

SpecModality == InitModality /\ [][NextModality]_vars

\* C8: deleteModality(id), confirmed while a shift of the tenant has
\* modalityId = id, fails with ReferentialConflict, ends there without
\* issuing the delete, and the modality document still exists.
C8_ReferencedModalityKept ==
  [][( /\ modDel.pc = "modal"
       /\ modDel'.pc # "modal"
       /\ lastOp' # Quiet \/ modDel'.pc = "delete"
       /\ \E s \in ShiftIds :
            shiftsDb[s].state = "live" /\ shiftsDb[s].modalityId = modDel.id )
      => /\ lastOp' = Op("confirmDeleteModality", modDel.id, "", "ReferentialConflict")
         /\ modDel'.pc = "idle"
         /\ modalitiesDb' = modalitiesDb
         /\ modDel.id \in modalitiesDb']_vars

\* C8 witness: a delete was turned down with ReferentialConflict, a shift
\* references the modality, and the modality is in the store.
C8_Witness ==
  /\ lastOp.op = "confirmDeleteModality"
  /\ lastOp.result = "ReferentialConflict"
  /\ lastOp.id \in modalitiesDb
  /\ \E s \in LiveShifts : shiftsDb[s].modalityId = lastOp.id
  /\ modDel.pc = "idle"

\* C13: in every reachable state of the store, the modalityId of every
\* shift is the id of a stored modality of the tenant.
C13_ShiftModalityExists ==
  \A s \in LiveShifts : shiftsDb[s].modalityId \in modalitiesDb

\* ------------------------------------------- Clients: the modality held
\* ClientDashboard.handleChangeModality of the signed-in account u, once the
\* resolver has set adminUserId and clientProfile.  clientProfile is taken
\* as the client that carries the account id now, and the select as listing
\* the modalities the store holds now (the subscription has delivered).
handleChangeModality(u, m) ==
  /\ cdAdmin[u]
  /\ m \in modalitiesDb \cup {""}
  /\ \E c \in ClientIds :
       /\ clientsDb[c].live
       /\ clientsDb[c].associatedUserUid = u
       /\ IF m = ""
          THEN /\ lastOp' = Op("handleChangeModality", c, m, "ValidationError")
               /\ UNCHANGED clientsDb
          ELSE /\ clientsDb' = [clientsDb EXCEPT ![c].currentModalityId = m]
               /\ lastOp' = Op("handleChangeModality", c, m, "ok")
  /\ UNCHANGED rosterFrame

\* A tenant with two modalities and a roster of two clients, the first
\* linked to account u1; the administrator is on the Clients view.
InitProfile ==
  /\ shiftsDb = [s \in ShiftIds |-> BlankShift]
  /\ clientsDb = InitRoster
  /\ paymentsDb = [p \in PaymentIds |-> NoPayment]
  /\ modalitiesDb = ModalityIds
  /\ inFlight = {}
  /\ adminView = "clients"
  /\ adminShifts = [s \in ShiftIds |-> BlankShift]
  /\ cdAdmin = [u \in ClientUids |-> FALSE]
  /\ cdShifts = [u \in ClientUids |-> [s \in ShiftIds |-> BlankShift]]
  /\ delState = [pc |-> "idle", id |-> ""]
  /\ FarInit
  /\ lastOp = Quiet

\* The administrator on the Clients and Modalities views, the end user on
\* its dashboard.
NextProfile ==
  \/ \E v \in {"clients", "modalities"} : SwitchView(v)
  \/ \E n \in BOOLEAN, u \in AppUserUids \cup {""} : handleAddClient(n, u)
  \/ \E c \in ClientIds, n \in BOOLEAN, u \in AppUserUids \cup {""} :
       handleUpdateClient(c, n, u)
  \/ \E c \in ClientIds : DeleteClientDoc(c)
  \/ DeleteClientPayments
  \/ DeleteClientShifts
  \/ \E u \in ClientUids : cdMount(u)
  \/ \E u \in ClientUids, m \in ModalityIds \cup {""} : handleChangeModality(u, m)
  \/ \E id \in ModalityIds : handleDeleteModalityClick(id)
  \/ confirmDeleteModalityQuery
  \/ confirmDeleteModalityDelete

SpecProfile == InitProfile /\ [][NextProfile]_vars

\* C23: handleAddClient and handleUpdateClient fail with ValidationError and
\* write nothing when the name is empty; a successful handleUpdateClient
\* writes the form's associatedUserUid to the client, leaves the client's
\* currentModalityId as stored, and leaves every other client alone.
C23_ClientFormValidatedAndFramed ==
  [][/\ \A n \in BOOLEAN, u \in AppUserUids \cup {""} :
          (lastOp'.op = "handleAddClient" /\ ~n /\ handleAddClient(n, u))
            => /\ lastOp'.result = "ValidationError"
               /\ clientsDb' = clientsDb
     /\ \A c \in ClientIds, n \in BOOLEAN, u \in AppUserUids \cup {""} :
          (lastOp'.op = "handleUpdateClient" /\ handleUpdateClient(c, n, u))
            => /\ ~n => /\ lastOp'.result = "ValidationError"
                        /\ clientsDb' = clientsDb
               /\ n => /\ lastOp'.result = "ok"
                       /\ clientsDb'[c].associatedUserUid = u
               /\ clientsDb'[c].currentModalityId = clientsDb[c].currentModalityId
               /\ clientsDb'[c].live
               /\ \A d \in ClientIds \ {c} : clientsDb'[d] = clientsDb[d]]_vars

\* C23 witness: a client that holds modality m1 was updated, the link to its
\* account taken away, and it still holds m1.
C23_Witness ==
  /\ lastOp = Op("handleUpdateClient", "c1", "", "ok")
  /\ clientsDb["c1"].currentModalityId = "m1"
  /\ clientsDb["c1"].associatedUserUid = ""

\* C25: in every reachable state, the currentModalityId of every client of
\* the roster, when set, is the id of a stored modality of the tenant.
C25_ClientModalityExists ==
  \A c \in ClientIds :
    (clientsDb[c].live /\ clientsDb[c].currentModalityId # "")
      => clientsDb[c].currentModalityId \in modalitiesDb

\* ------------------------------------- Payment Ledger: the stored ledger
\* setCurrentView(v) whole: the view that mounts starts with shifts = [] and
\* payments = [] and renders; the confirmation modals cover the navigation.
SetCurrentView(v) ==
  /\ v # adminView
  /\ delState.pc = "idle"
  /\ modDel.pc = "idle"
  /\ adminView' = v
  /\ adminShifts' = [s \in ShiftIds |-> BlankShift]
  /\ viewPayments' = [p \in PaymentIds |-> NoPayment]
  /\ rendered' = RenderView(v, viewPayments', today)
  /\ lastOp' = Quiet
  /\ UNCHANGED <<storeVars, cdAdmin, cdShifts, delState, today, modDel, acctVars>>

\* The clock read when the Payments view mounted: the form's month and year
\* start from it.
LedgerDate == [fullYear |-> 2025, month0 |-> 11, date |-> 10]

\* A tenant with two clients, a shift and two modalities, the administrator
\* on the Payments view.
InitLedger ==
  /\ shiftsDb = [s \in ShiftIds |->
       [state |-> "live", capacity |-> Whole(1), modalityId |-> "m1",
        bookedClients |-> <<>>]]
  /\ clientsDb = InitRoster
  /\ paymentsDb = [p \in PaymentIds |-> NoPayment]
  /\ modalitiesDb = ModalityIds
  /\ inFlight = {}
  /\ adminView = "payments"
  /\ adminShifts = [s \in ShiftIds |-> BlankShift]
  /\ cdAdmin = [u \in ClientUids |-> FALSE]
  /\ cdShifts = [u \in ClientUids |-> [s \in ShiftIds |-> BlankShift]]
  /\ delState = [pc |-> "idle", id |-> ""]
  /\ today = LedgerDate
  /\ viewPayments = [p \in PaymentIds |-> NoPayment]
  /\ rendered = RenderView("payments", viewPayments, today)
  /\ ModIdle /\ AcctIdle
  /\ lastOp = Quiet

\* The administrator at work on every view that writes to the store; the
\* payment form is given every amount and one month, its year left as set.
NextLedger ==
  \/ \E v \in {"payments", "clients", "shifts", "modalities"} : SetCurrentView(v)
  \/ adminView \in {"payments", "clients"} /\ PaymentsDeliver
  \/ \E c \in ClientIds \cup {""}, a \in PayAmounts :
       handleAddPayment(c, a, today.month0 + 1, today.fullYear)
  \/ \E p \in PaymentIds : confirmDeletePayment(p)
  \/ \E c \in ClientIds : DeleteClientDoc(c)
  \/ DeleteClientPayments
  \/ DeleteClientShifts
  \/ \E w \in inFlight : Land(w)
  \/ \E c \in ClientIds, n \in BOOLEAN : handleUpdateClient(c, n, "")
  \/ AdminDeliver
  \/ \E s \in ShiftIds, c \in ClientIds : handleBookClient(s, c)
  \/ \E id \in ModalityIds : handleDeleteModalityClick(id)
  \/ confirmDeleteModalityQuery
  \/ confirmDeleteModalityDelete

SpecLedger == InitLedger /\ [][NextLedger]_vars

PaymentDeleted(p) ==
  /\ ~paymentsDb'[p].live
  /\ \/ lastOp' = Op("confirmDeletePayment", p, "", "ok")
     \/ \E w \in inFlight \ inFlight' :
          /\ w.kind = "deletePayment"
          /\ w.id = p
          /\ w.client = paymentsDb[p].clientId

\* C22: every step leaves every stored payment as it is, field by field, or
\* deletes it; a payment is deleted only by the delete of that payment or by
\* the cascade of the delete of its own client.
C22_PaymentImmutable ==
  [][\A p \in PaymentIds :
       paymentsDb[p].live
         => paymentsDb'[p] = paymentsDb[p] \/ PaymentDeleted(p)]_vars

\* C22 witness: the cascade of the delete of c1 has run to its end and
\* landed while a payment of c2 is stored, and that payment is still there.
C22_Witness ==
  /\ lastOp = Quiet
  /\ ~clientsDb["c1"].live
  /\ delState.pc = "idle"
  /\ inFlight = {}
  /\ \E p, q \in PaymentIds :
       /\ paymentsDb[p].live /\ paymentsDb[p].clientId = "c2"
       /\ ~paymentsDb[q].live /\ viewPayments[q].live
       /\ viewPayments[q].clientId = "c1"

\* ------------------------------------------------------ Account Registry
\* The account ids and the roster document ids, in document-id order.
AccountSeq == <<"a1", "a2", "a3">>
Accounts == {AccountSeq[k] : k \in 1..Len(AccountSeq)}
\* The accounts that register while a specification runs; the third is in
\* the registry only where a specification starts with it there.
Registrants == {"a1", "a2"}
ClientSeq == <<"c1">>
RosterIds == {ClientSeq[k] : k \in 1..Len(ClientSeq)}

acctFrame == <<storeVars, sessionVars, payVars, modDel>>

\* An account document and its settings/brand document: brand says that the
\* brand document exists, imageUrl is its field.
NoAccount == [role |-> "", order |-> 0, brand |-> FALSE, imageUrl |-> ""]
\* The App state of an account's browser showing AuthScreen (the callback ran
\* for no user: loading is false, isAuthReady true), and where its
\* registration handler (hpc) and its auth callback (cpc) stand.
SignedOut == [hpc |-> "idle", hrole |-> "", cpc |-> "idle", crole |-> "",
              userId |-> "", userRole |-> "", isLoggedIn |-> FALSE,
              brandImageUrl |-> "", loading |-> FALSE, isAuthReady |-> TRUE]

\* The last two statements of the callback: setIsAuthReady(true),
\* setLoading(false).
CallbackEnd(r) ==
  [r EXCEPT !.cpc = "done", !.loading = FALSE, !.isAuthReady = TRUE]
ResolverIdle == [pc |-> "idle", uid |-> "", docs |-> <<>>, i |-> 0,
                 tenant |-> "", client |-> "", queried |-> {}, changed |-> FALSE]

\* getDocs(users).empty
UsersEmpty == \A a \in Accounts : usersDb[a].role = ""

\* let roleToAssign = "client"; if (existingUsers.empty) roleToAssign = "admin"
RoleToAssign == IF UsersEmpty THEN "admin" ELSE "client"

\* setDoc(users/uid, {role}): creates the document or overwrites its role.
SetUserDoc(a, role) ==
  [usersDb EXCEPT ![a] =
     [role |-> role,
      order |-> IF @.order = 0
                THEN 1 + Cardinality({b \in Accounts : usersDb[b].role # ""})
                ELSE @.order,
      brand |-> @.brand,
      imageUrl |-> @.imageUrl]]

\* handleAuth with isRegistering: createUserWithEmailAndPassword resolves,
\* and the new signed-in user is handed to the onAuthStateChanged callback,
\* which runs setUserId / setIsLoggedIn(true) up to its first await.
register(a) ==
  /\ reg[a].hpc = "idle" /\ reg[a].cpc = "idle"
  /\ reg' = [reg EXCEPT ![a].hpc = "getDocs", ![a].cpc = "getDoc",
                         ![a].userId = a, ![a].isLoggedIn = TRUE]
  /\ lastOp' = Quiet
  /\ UNCHANGED <<usersDb, rosters, resolver, acctFrame>>

\* handleAuth: existingUsers = await getDocs(users); roleToAssign.
authGetDocs(a) ==
  /\ reg[a].hpc = "getDocs"
  /\ reg' = [reg EXCEPT ![a].hpc = "setDoc", ![a].hrole = RoleToAssign]
  /\ lastOp' = Quiet
  /\ UNCHANGED <<usersDb, rosters, resolver, acctFrame>>

\* handleAuth: await setDoc(users/uid, {role: roleToAssign}).
authSetDoc(a) ==
  /\ reg[a].hpc = "setDoc"
  /\ usersDb' = SetUserDoc(a, reg[a].hrole)
  /\ reg' = [reg EXCEPT ![a].hpc = IF reg[a].hrole = "admin" THEN "brand" ELSE "done"]
  /\ lastOp' = Quiet
  /\ UNCHANGED <<rosters, resolver, acctFrame>>

\* handleAuth: await setDoc(settings/brand, {imageUrl: ""}); success message.
authSetBrand(a) ==
  /\ reg[a].hpc = "brand"
  /\ usersDb' = [usersDb EXCEPT ![a].brand = TRUE, ![a].imageUrl = ""]
  /\ reg' = [reg EXCEPT ![a].hpc = "done"]
  /\ lastOp' = Quiet
  /\ UNCHANGED <<rosters, resolver, acctFrame>>

\* callback: userDocSnap = await getDoc(users/uid); with a document it
\* adopts the stored role, without one it goes on to assign a role.
cbGetDoc(a) ==
  /\ reg[a].cpc = "getDoc"
  /\ reg' = IF usersDb[a].role # ""
            THEN [reg EXCEPT ![a] =
                    IF usersDb[a].role = "admin"
                    THEN [@ EXCEPT !.userRole = usersDb[a].role, !.cpc = "getBrand"]
                    ELSE CallbackEnd([@ EXCEPT !.userRole = usersDb[a].role])]
            ELSE [reg EXCEPT ![a].cpc = "getDocs"]
  /\ lastOp' = Quiet
  /\ UNCHANGED <<usersDb, rosters, resolver, acctFrame>>

\* callback: await getDoc(settings/brand); setBrandImageUrl; the final
\* setIsAuthReady(true), setLoading(false).
cbGetBrand(a) ==
  /\ reg[a].cpc = "getBrand"
  /\ reg' = [reg EXCEPT ![a] =
               CallbackEnd(IF usersDb[a].brand
                           THEN [@ EXCEPT !.brandImageUrl = usersDb[a].imageUrl]
                           ELSE @)]
  /\ lastOp' = Quiet
  /\ UNCHANGED <<usersDb, rosters, resolver, acctFrame>>

\* callback: existingUsers = await getDocs(users); roleToAssign.
cbGetDocs(a) ==
  /\ reg[a].cpc = "getDocs"
  /\ reg' = [reg EXCEPT ![a].cpc = "setDoc", ![a].crole = RoleToAssign]
  /\ lastOp' = Quiet
  /\ UNCHANGED <<usersDb, rosters, resolver, acctFrame>>

\* callback: await setDoc(users/uid, {role: roleToAssign}); setUserRole.
cbSetDoc(a) ==
  /\ reg[a].cpc = "setDoc"
  /\ usersDb' = SetUserDoc(a, reg[a].crole)
  /\ reg' = [reg EXCEPT ![a] =
               IF reg[a].crole = "admin"
               THEN [@ EXCEPT !.userRole = reg[a].crole, !.cpc = "brand"]
               ELSE CallbackEnd([@ EXCEPT !.userRole = reg[a].crole])]
  /\ lastOp' = Quiet
  /\ UNCHANGED <<rosters, resolver, acctFrame>>

\* callback: await setDoc(settings/brand, {imageUrl: ""}); the final
\* setIsAuthReady(true), setLoading(false).
cbSetBrand(a) ==
  /\ reg[a].cpc = "brand"
  /\ usersDb' = [usersDb EXCEPT ![a].brand = TRUE, ![a].imageUrl = ""]
  /\ reg' = [reg EXCEPT ![a] = CallbackEnd(@)]
  /\ lastOp' = Quiet
  /\ UNCHANGED <<rosters, resolver, acctFrame>>

AuthSteps ==
  \E a \in Registrants :
    \/ register(a)
    \/ authGetDocs(a)
    \/ authSetDoc(a)
    \/ authSetBrand(a)
    \/ cbGetDoc(a)
    \/ cbGetBrand(a)
    \/ cbGetDocs(a)
    \/ cbSetDoc(a)
    \/ cbSetBrand(a)

\* The empty registry: no account document, nobody signed in.
InitAuth ==
  /\ StoreIdle
  /\ PayIdle
  /\ ModIdle
  /\ usersDb = [a \in Accounts |-> NoAccount]
  /\ rosters = [a \in Accounts |-> [c \in RosterIds |-> ""]]
  /\ resolver = ResolverIdle
  /\ reg = [a \in Accounts |-> SignedOut]
  /\ lastOp = Quiet

NextAuth == AuthSteps

SpecAuth == InitAuth /\ [][NextAuth]_vars

\* Every started handler and callback ran to its end.
AuthQuiescent ==
  \A a \in Accounts : reg[a].hpc \in {"idle", "done"} /\ reg[a].cpc \in {"idle", "done"}

\* C10: from the empty registry, once the registration handlers and the
\* auth-state callbacks have run, the account document created first has
\* role admin and every one created later has role client, so exactly one
\* account is an admin.
C10_FirstAdminRestClient ==
  AuthQuiescent =>
    \A a \in Accounts :
      usersDb[a].order # 0 =>
        usersDb[a].role = IF usersDb[a].order = 1 THEN "admin" ELSE "client"

\* C11: once an account document carries a role, no step stores a
\* different role in it.
C11_RoleNeverChanges ==
  [][\A a \in Accounts :
       usersDb[a].role # "" => usersDb'[a].role = usersDb[a].role]_vars

\* ------------------------------------------------- App start and failures
\* The page is loaded in a browser that holds the persisted session of
\* account a: App is constructed (loading = true, isAuthReady = false,
\* userRole = null) and onAuthStateChanged hands the user to the callback,
\* which runs up to its first await.
pageLoad(a) ==
  /\ reg[a].cpc \in {"done", "failed"}
  /\ reg[a].hpc \in {"idle", "done", "failed"}
  /\ reg' = [reg EXCEPT ![a] = [SignedOut EXCEPT !.loading = TRUE,
                                                 !.isAuthReady = FALSE,
                                                 !.userId = a,
                                                 !.isLoggedIn = TRUE,
                                                 !.cpc = "getDoc"]]
  /\ lastOp' = Quiet
  /\ UNCHANGED <<usersDb, rosters, resolver, acctFrame>>

\* The store call the callback awaits is rejected.  The callback has no
\* try/catch: the rejection ends it there, before setIsAuthReady(true) and
\* setLoading(false).
cbFail(a) ==
  /\ reg[a].cpc \in {"getDoc", "getBrand", "getDocs", "setDoc", "brand"}
  /\ reg' = [reg EXCEPT ![a].cpc = "failed"]
  /\ lastOp' = Quiet
  /\ UNCHANGED <<usersDb, rosters, resolver, acctFrame>>

\* The store call handleAuth awaits is rejected: its catch block shows
\* "Error de autenticacion".
authFail(a) ==
  /\ reg[a].hpc \in {"getDocs", "setDoc", "brand"}
  /\ reg' = [reg EXCEPT ![a].hpc = "failed"]
  /\ lastOp' = Op("handleAuth", a, "", "error")
  /\ UNCHANGED <<usersDb, rosters, resolver, acctFrame>>

\* The awaited call of the callback, and of handleAuth, settles one way or
\* the other.
CallbackStep(a) ==
  \/ cbGetDoc(a) \/ cbGetBrand(a) \/ cbGetDocs(a) \/ cbSetDoc(a) \/ cbSetBrand(a)
  \/ cbFail(a)

HandlerStep(a) ==
  \/ authGetDocs(a) \/ authSetDoc(a) \/ authSetBrand(a)
  \/ authFail(a)

NextLoad ==
  \/ AuthSteps
  \/ \E a \in Registrants : pageLoad(a)
  \/ \E a \in Registrants : cbFail(a)
  \/ \E a \in Registrants : authFail(a)

\* Every awaited store call settles.
SpecLoad ==
  /\ InitAuth
  /\ [][NextLoad]_vars
  /\ \A a \in Registrants : WF_vars(CallbackStep(a)) /\ WF_vars(HandlerStep(a))

\* C14: whatever store call fails, an App that is in its loading state
\* leaves it: loading becomes false and isAuthReady true.
C14_LoadingEnds ==
  \A a \in Accounts :
    reg[a].loading ~> (~reg[a].loading /\ reg[a].isAuthReady)

\* -------------------------------------------------- Association Resolver

\* The options of the associatedUserUid select: "No asociar" and the
\* accounts the users subscription delivers with role "client".
AppUsers == {a \in Accounts : usersDb[a].role = "client"}

\* handleAddClient / handleUpdateClient in the session of account t, which
\* shows the Clients view while its userRole state is "admin": the client
\* document c of t's roster is stored with the selected associatedUserUid.
linkClient(t, c, u) ==
  /\ reg[t].userRole = "admin"
  /\ u \in AppUsers \cup {""}
  /\ rosters[t][c] # u
  /\ rosters' = [rosters EXCEPT ![t][c] = u]
  /\ resolver' = [resolver EXCEPT !.changed = @ \/ resolver.pc # "idle"]
  /\ lastOp' = Quiet
  /\ UNCHANGED <<usersDb, reg, acctFrame>>

\* The resolver effect of ClientDashboard, which App renders for a signed-in
\* user whose userRole state is not "admin": fetchClientProfile() starts.
fetchStart(u) ==
  /\ resolver.pc = "idle"
  /\ reg[u].isLoggedIn
  /\ ~reg[u].loading
  /\ reg[u].userRole # "admin"
  /\ resolver' = [ResolverIdle EXCEPT !.pc = "getDocs", !.uid = u]
  /\ lastOp' = Quiet
  /\ UNCHANGED <<usersDb, rosters, reg, acctFrame>>

\* allUsersSnapshot = await getDocs(users): the stored accounts, by id.
AllUsersSnapshot ==
  LET Present(a) == usersDb[a].role # ""
      Doc(k) == [id |-> AccountSeq[k], role |-> usersDb[AccountSeq[k]].role]
  IN [k \in 1..Len(AccountSeq) |-> Doc(k)]

RECURSIVE ExistingDocs(_)
ExistingDocs(docs) ==
  IF docs = <<>> THEN <<>>
  ELSE IF Head(docs).role = "" THEN ExistingDocs(Tail(docs))
       ELSE <<Head(docs)>> \o ExistingDocs(Tail(docs))

fetchGetDocs ==
  /\ resolver.pc = "getDocs"
  /\ resolver' = [resolver EXCEPT !.pc = "scan", !.i = 1,
                                  !.docs = ExistingDocs(AllUsersSnapshot)]
  /\ lastOp' = Quiet
  /\ UNCHANGED <<usersDb, rosters, reg, acctFrame>>

\* query(clients of adminUid, where("associatedUserUid", "==", userId)):
\* the positions in ClientSeq of the matching documents.
ClientMatches(adminUid, userId) ==
  {k \in 1..Len(ClientSeq) : rosters[adminUid][ClientSeq[k]] = userId}

\* clientSnapshot.docs[0]
FirstMatch(adminUid, userId) ==
  ClientSeq[CHOOSE k \in ClientMatches(adminUid, userId) :
              \A j \in ClientMatches(adminUid, userId) : k <= j]

\* fetchScan without its break: the loop goes on after a match and the last
\* match stays.
fetchScanNoBreak ==
  /\ resolver.pc = "scan"
  /\ resolver.i <= Len(resolver.docs)
  /\ LET userDoc == resolver.docs[resolver.i]
         adminUid == userDoc.id
     IN IF userDoc.role # "admin"
        THEN resolver' = [resolver EXCEPT !.i = @ + 1]
        ELSE IF ClientMatches(adminUid, resolver.uid) # {}
             THEN resolver' = [resolver EXCEPT
                                 !.i = @ + 1,
                                 !.tenant = adminUid,
                                 !.client = FirstMatch(adminUid, resolver.uid),
                                 !.queried = @ \cup {adminUid}]
             ELSE resolver' = [resolver EXCEPT !.i = @ + 1,
                                               !.queried = @ \cup {adminUid}]
  /\ lastOp' = Quiet
  /\ UNCHANGED <<usersDb, rosters, reg, acctFrame>>

\* One turn of the for loop: a document whose role is not "admin" is
\* passed over; for an admin the client query is awaited, and a non-empty
\* answer sets the found pair and breaks.
fetchScan ==
  /\ resolver.pc = "scan"
  /\ resolver.i <= Len(resolver.docs)
  /\ LET userDoc == resolver.docs[resolver.i]
         adminUid == userDoc.id
     IN IF userDoc.role # "admin"
        THEN resolver' = [resolver EXCEPT !.i = @ + 1]
        ELSE IF ClientMatches(adminUid, resolver.uid) # {}
             THEN resolver' = [resolver EXCEPT
                                 !.pc = "finish",
                                 !.tenant = adminUid,
                                 !.client = FirstMatch(adminUid, resolver.uid),
                                 !.queried = @ \cup {adminUid}]
             ELSE resolver' = [resolver EXCEPT !.i = @ + 1,
                                               !.queried = @ \cup {adminUid}]
  /\ lastOp' = Quiet
  /\ UNCHANGED <<usersDb, rosters, reg, acctFrame>>

\* After the loop: setClientProfile / setAdminUserId for a found pair,
\* the "no ha sido asociado" message otherwise.  The found pair stays in
\* the component state; the locals of the call are gone.
fetchFinish ==
  /\ \/ resolver.pc = "finish"
     \/ resolver.pc = "scan" /\ resolver.i > Len(resolver.docs)
  /\ resolver' = [resolver EXCEPT !.pc = "idle", !.docs = <<>>, !.i = 0,
                                  !.queried = {}]
  /\ lastOp' = Op("fetchClientProfile", resolver.uid, resolver.tenant,
                  IF resolver.tenant # "" THEN "ok" ELSE "NotAssociated")
  /\ UNCHANGED <<usersDb, rosters, reg, acctFrame>>

InitResolver == InitAuth

NextResolver ==
  \/ AuthSteps
  \/ \E t \in Accounts, c \in RosterIds, u \in Accounts \cup {""} : linkClient(t, c, u)
  \/ \E u \in Accounts : fetchStart(u)
  \/ fetchGetDocs
  \/ fetchScan
  \/ fetchFinish

SpecResolver == InitResolver /\ [][NextResolver]_vars

\* The accounts whose roster holds a client linked to account id u.
LinkedIn(u) == {t \in Accounts : \E c \in RosterIds : rosters[t][c] = u}

\* C9: a resolver run over a roster content that did not change while it
\* ran returns the (tenant, Client) pair when the account id is linked in
\* exactly one roster, and reports NotAssociated when it is linked in none,
\* whatever roles the stored account documents carry.
C9_ResolverFindsLinkedAccount ==
  (lastOp.op = "fetchClientProfile" /\ ~resolver.changed) =>
     /\ Cardinality(LinkedIn(lastOp.id)) = 1 =>
          /\ lastOp.result = "ok"
          /\ resolver.tenant \in LinkedIn(lastOp.id)
          /\ rosters[resolver.tenant][resolver.client] = lastOp.id
     /\ LinkedIn(lastOp.id) = {} => lastOp.result = "NotAssociated"

\* ------------------------------------------- Association Resolver: the scan
\* The session of an account whose callback ended with the role it read.
SignedIn(a, role) ==
  [CallbackEnd(SignedOut) EXCEPT !.userId = a, !.isLoggedIn = TRUE, !.userRole = role]

\* A registry of three accounts: a1 and a2 each hold a roster and have the
\* administrator's views open, and each is stored as admin or as client; a3
\* is an end user.  Each roster's client is linked to a3 or to nobody.
InitScan ==
  /\ StoreIdle
  /\ PayIdle
  /\ ModIdle
  /\ \E r1, r2 \in {"admin", "client"} :
       usersDb = [a \in Accounts |->
                    [role |-> IF a = "a1" THEN r1 ELSE IF a = "a2" THEN r2 ELSE "client",
                     order |-> IF a = "a1" THEN 1 ELSE IF a = "a2" THEN 2 ELSE 3,
                     brand |-> FALSE, imageUrl |-> ""]]
  /\ \E l1, l2 \in {"", "a3"} :
       rosters = [a \in Accounts |->
                    [c \in RosterIds |->
                       IF a = "a1" THEN l1 ELSE IF a = "a2" THEN l2 ELSE ""]]
  /\ resolver = ResolverIdle
  /\ reg = [a \in Accounts |-> SignedIn(a, IF a = "a3" THEN "client" ELSE "admin")]
  /\ lastOp = Quiet

NextScan ==
  \/ \E t \in Registrants, c \in RosterIds, u \in Accounts \cup {""} : linkClient(t, c, u)
  \/ \E u \in Accounts : fetchStart(u)
  \/ fetchGetDocs
  \/ fetchScan
  \/ fetchFinish

SpecScan == InitScan /\ [][NextScan]_vars

\* The tenants (accounts stored with role admin) whose roster holds a client
\* linked to account id u.
LinkedTenants(u) == {t \in LinkedIn(u) : usersDb[t].role = "admin"}

\* C24: the scan queries one tenant per turn, in the order of the account
\* documents, and none once a match was found; a turn whose query finds a
\* client linked to the account ends the scan with that tenant and that
\* client.  A run during which no roster changed, for an account linked in
\* one or more tenants, returns a tenant and a client of it linked to the
\* account.
C24_ResolverStopsAtFirstMatch ==
  [][/\ (resolver.pc = "scan" /\ resolver'.pc # "idle"
           /\ resolver'.queried # resolver.queried)
          => LET userDoc == resolver.docs[resolver.i]
             IN /\ resolver.tenant = ""
                /\ userDoc.role = "admin"
                /\ resolver'.queried = resolver.queried \cup {userDoc.id}
                /\ \A j \in 1..(resolver.i - 1) :
                     resolver.docs[j].role = "admin"
                       => resolver.docs[j].id \in resolver.queried
                /\ IF ClientMatches(userDoc.id, resolver.uid) # {}
                   THEN /\ resolver'.pc = "finish"
                        /\ resolver'.tenant = userDoc.id
                        /\ rosters[userDoc.id][resolver'.client] = resolver.uid
                   ELSE resolver'.tenant = ""
     /\ resolver.tenant # "" => resolver'.queried \subseteq resolver.queried
     /\ (lastOp'.op = "fetchClientProfile" /\ ~resolver.changed
           /\ LinkedTenants(lastOp'.id) # {})
          => /\ lastOp'.result = "ok"
             /\ resolver'.tenant \in LinkedTenants(lastOp'.id)
             /\ rosters[resolver'.tenant][resolver'.client] = lastOp'.id]_vars

\* C24 witness: account a3 is linked in the rosters of two tenants, and a run
\* during which no roster changed returned the first of them.
C24_Witness ==
  /\ lastOp = Op("fetchClientProfile", "a3", "a1", "ok")
  /\ ~resolver.changed
  /\ LinkedTenants("a3") = {"a1", "a2"}
  /\ resolver.client = "c1"

\* ------------------------------------------------------ Shifts: the listing
\* The listing is checked on its own: here the shift documents carry the
\* date and time the rest of the model leaves out, and adminShifts is the
\* array setShifts is given.
ListingSeq == <<"s1", "s2", "s3">>

\* The values of the date and time inputs: a date "YYYY-MM-DD" is a day
\* number, a time "HH:MM" an hour and a minute.
ShiftDays  == {1, 2}
ShiftTimes == {[hour |-> 9, minute |-> 30], [hour |-> 18, minute |-> 0]}

\* new Date(`${date}T${time}`) as a number: the minutes since day 0.
DateValue(date, time) == (date * 24 + time.hour) * 60 + time.minute

\* The content of the shifts collection, shiftsDb[k] for the k-th document
\* id: the date and time of its document, or no document.
NoDoc == [date |-> 0, time |-> [hour |-> 0, minute |-> 0]]
ShiftDocs == [date : ShiftDays, time : ShiftTimes]

\* snapshot.docs.map(doc => ({id: doc.id, ...doc.data()})): the documents
\* of the collection, in the order of their ids.
RECURSIVE DocsFrom(_, _)
DocsFrom(coll, k) ==
  IF k > Len(ListingSeq) THEN <<>>
  ELSE IF coll[k] = NoDoc THEN DocsFrom(coll, k + 1)
  ELSE <<[id |-> ListingSeq[k], date |-> coll[k].date, time |-> coll[k].time]>>
         \o DocsFrom(coll, k + 1)

SnapshotDocs(coll) == DocsFrom(coll, 1)

\* The comparator of the sort: dateA - dateB.
CompareShifts(a, b) == DateValue(a.date, a.time) - DateValue(b.date, b.time)

\* Array.prototype.sort(compare), which is stable: an element goes behind
\* every element it does not compare below.
RECURSIVE InsertShift(_, _)
InsertShift(x, sorted) ==
  IF sorted = <<>> THEN <<x>>
  ELSE IF CompareShifts(x, Head(sorted)) < 0 THEN <<x>> \o sorted
  ELSE <<Head(sorted)>> \o InsertShift(x, Tail(sorted))

RECURSIVE SortFrom(_, _)
SortFrom(docs, sorted) ==
  IF docs = <<>> THEN sorted
  ELSE SortFrom(Tail(docs), InsertShift(Head(docs), sorted))

\* The array as the snapshot gives it, unsorted.
UnsortedShifts(docs) == docs

\* shiftsData.sort((a, b) => dateA - dateB)
SortShifts(docs) == SortFrom(docs, <<>>)

listingFrame == <<clientsDb, paymentsDb, modalitiesDb, inFlight, adminView,
                  cdAdmin, cdShifts, delState, farVars>>

\* handleAddShift's addDoc with the form's date and time: a new document.
AddShiftDoc(k, doc) ==
  /\ shiftsDb[k] = NoDoc
  /\ shiftsDb' = [shiftsDb EXCEPT ![k] = doc]
  /\ lastOp' = Quiet
  /\ UNCHANGED <<adminShifts, listingFrame>>

\* handleUpdateShift's updateDoc with the form's date and time.
UpdateShiftDoc(k, doc) ==
  /\ shiftsDb[k] \notin {NoDoc, doc}
  /\ shiftsDb' = [shiftsDb EXCEPT ![k] = doc]
  /\ lastOp' = Quiet
  /\ UNCHANGED <<adminShifts, listingFrame>>

\* confirmDeleteShift's deleteDoc.
RemoveShiftDoc(k) ==
  /\ shiftsDb[k] # NoDoc
  /\ shiftsDb' = [shiftsDb EXCEPT ![k] = NoDoc]
  /\ lastOp' = Quiet
  /\ UNCHANGED <<adminShifts, listingFrame>>

\* The Shifts subscription delivers the collection: setShifts(sorted array).
ShiftsDelivered ==
  /\ adminShifts' = SortShifts(SnapshotDocs(shiftsDb))
  /\ adminShifts' # adminShifts
  /\ lastOp' = Quiet
  /\ UNCHANGED <<shiftsDb, listingFrame>>

\* The Shifts view mounted over an empty collection, its shifts = [].
InitListing ==
  /\ shiftsDb = [k \in 1..Len(ListingSeq) |-> NoDoc]
  /\ clientsDb = InitRoster
  /\ paymentsDb = [p \in PaymentIds |-> NoPayment]
  /\ modalitiesDb = {"m1"}
  /\ inFlight = {}
  /\ adminView = "shifts"
  /\ adminShifts = <<>>
  /\ cdAdmin = [u \in ClientUids |-> FALSE]
  /\ cdShifts = [u \in ClientUids |-> [s \in ShiftIds |-> BlankShift]]
  /\ delState = [pc |-> "idle", id |-> ""]
  /\ lastOp = Quiet
  /\ FarInit

NextListing ==
  \/ \E k \in 1..Len(ListingSeq), doc \in ShiftDocs : AddShiftDoc(k, doc)
  \/ \E k \in 1..Len(ListingSeq), doc \in ShiftDocs : UpdateShiftDoc(k, doc)
  \/ \E k \in 1..Len(ListingSeq) : RemoveShiftDoc(k)
  \/ ShiftsDelivered

SpecListing == InitListing /\ [][NextListing]_vars

\* a is not later than b, by date and then by time of day.
NotLater(a, b) ==
  \/ a.date < b.date
  \/ /\ a.date = b.date
     /\ \/ a.time.hour < b.time.hour
        \/ a.time.hour = b.time.hour /\ a.time.minute <= b.time.minute

SortedByDateTime(list) ==
  \A i \in 1..(Len(list) - 1) : NotLater(list[i], list[i + 1])

\* list holds exactly the elements of docs, each once.
PermutationOf(list, docs) ==
  /\ Len(list) = Len(docs)
  /\ \E f \in [1..Len(docs) -> 1..Len(docs)] :
       /\ \A i, j \in 1..Len(docs) : i # j => f[i] # f[j]
       /\ \A i \in 1..Len(docs) : list[i] = docs[f[i]]

\* C26: after every snapshot the Shifts view is delivered, the list it holds
\* is a permutation of the snapshot's shifts in which no shift is later, by
\* (date, time), than the one that follows it.
C26_ShiftListSorted ==
  [][ShiftsDelivered
       => /\ PermutationOf(adminShifts', SnapshotDocs(shiftsDb))
          /\ SortedByDateTime(adminShifts')]_vars

\* C26 witness: the list holds the three shifts of the collection, of three
\* different date-times, in the reverse of the order the snapshot had them in.
C26_Witness ==
  /\ Len(adminShifts) = 3
  /\ PermutationOf(adminShifts, SnapshotDocs(shiftsDb))
  /\ adminShifts[1].id = "s3" /\ adminShifts[2].id = "s2" /\ adminShifts[3].id = "s1"
  /\ CompareShifts(adminShifts[1], adminShifts[2]) < 0
  /\ CompareShifts(adminShifts[2], adminShifts[3]) < 0

\* ------------------------------------------------- App: sign-in and sign-out
\* The values of the brand image URL input.
BrandUrls == {"", "logo"}

\* handleAuth without isRegistering, on AuthScreen: signInWithEmailAndPassword
\* resolves for a registered account, and the signed-in user is handed to the
\* onAuthStateChanged callback, which runs setUserId / setIsLoggedIn(true) up
\* to its first await.  reg[a] follows one callback: the sign-in is taken
\* once the callback of an earlier sign-in has ended.
handleLogin(a) ==
  /\ ~reg[a].loading /\ ~reg[a].isLoggedIn
  /\ usersDb[a].role # ""
  /\ reg[a].cpc \in {"idle", "done"}
  /\ reg' = [reg EXCEPT ![a].userId = a, ![a].isLoggedIn = TRUE, ![a].cpc = "getDoc"]
  /\ lastOp' = Op("handleAuth", a, "", "ok")
  /\ UNCHANGED <<usersDb, rosters, resolver, acctFrame>>

\* handleSignOut, the button shown while isLoggedIn: signOut(auth) resolves
\* and onAuthStateChanged hands null to the callback, whose else branch has
\* no await: setUserId(null), setUserRole(null), setIsLoggedIn(false),
\* setBrandImageUrl(""), setIsAuthReady(true), setLoading(false).  A callback
\* of the sign-in that is still awaiting stays where it is.
handleSignOut(a) ==
  /\ ~reg[a].loading /\ reg[a].isLoggedIn
  /\ reg' = [reg EXCEPT ![a].userId = "", ![a].userRole = "",
                         ![a].isLoggedIn = FALSE, ![a].brandImageUrl = "",
                         ![a].isAuthReady = TRUE, ![a].loading = FALSE]
  /\ lastOp' = Op("handleSignOut", a, "", "ok")
  /\ UNCHANGED <<usersDb, rosters, resolver, acctFrame>>

\* BrandSettings.handleSaveBrandImage, in the views of userRole "admin":
\* setDoc(users/userId/settings/brand, {imageUrl}), setBrandImageUrl.
handleSaveBrandImage(a, url) ==
  /\ ~reg[a].loading /\ reg[a].isLoggedIn /\ reg[a].userRole = "admin"
  /\ usersDb' = [usersDb EXCEPT ![reg[a].userId].brand = TRUE,
                                 ![reg[a].userId].imageUrl = url]
  /\ reg' = [reg EXCEPT ![a].brandImageUrl = url]
  /\ lastOp' = Op("handleSaveBrandImage", a, url, "ok")
  /\ UNCHANGED <<rosters, resolver, acctFrame>>

\* A registry of an administrator a1, whose roster links its client to the
\* account a2, and the end user a2; each browser shows AuthScreen.
InitSession ==
  /\ StoreIdle
  /\ PayIdle
  /\ ModIdle
  /\ usersDb = [a \in Accounts |->
                  IF a = "a1" THEN [role |-> "admin", order |-> 1,
                                    brand |-> TRUE, imageUrl |-> ""]
                  ELSE IF a = "a2" THEN [role |-> "client", order |-> 2,
                                         brand |-> FALSE, imageUrl |-> ""]
                  ELSE NoAccount]
  /\ rosters = [a \in Accounts |->
                  [c \in RosterIds |-> IF a = "a1" THEN "a2" ELSE ""]]
  /\ resolver = ResolverIdle
  /\ reg = [a \in Accounts |-> SignedOut]
  /\ lastOp = Quiet

NextSession ==
  \/ \E a \in Registrants : handleLogin(a)
  \/ \E a \in Registrants : handleSignOut(a)
  \/ \E a \in Registrants : cbGetDoc(a)
  \/ \E a \in Registrants : cbGetBrand(a)
  \/ \E a \in Registrants, url \in BrandUrls : handleSaveBrandImage(a, url)
  \/ \E u \in Registrants : fetchStart(u)
  \/ fetchGetDocs
  \/ fetchScan
  \/ fetchFinish

SpecSession == InitSession /\ [][NextSession]_vars

\* C28: in every reachable state of App, isLoggedIn = false implies that
\* userId and userRole are null and brandImageUrl is empty, also when the
\* sign-out is delivered while the callback of the sign-in is awaiting.
C28_SignedOutStateCleared ==
  \A a \in Accounts :
    ~reg[a].isLoggedIn =>
       /\ reg[a].userId = ""
       /\ reg[a].userRole = ""
       /\ reg[a].brandImageUrl = ""

\* The routing of App: past the loading screen, a signed-in user whose
\* userRole state is not "admin" is rendered ClientDashboard.
ClientDashboardShown(a) ==
  /\ ~reg[a].loading
  /\ reg[a].isLoggedIn
  /\ reg[a].userRole # "admin"

\* C29: ClientDashboard is shown, and its resolver runs, only for a
\* signed-in account whose stored role is client, never for an account
\* stored as admin, the time between the sign-in and the end of the role
\* lookup included.
C29_ClientViewOnlyForClients ==
  /\ \A a \in Accounts :
       ClientDashboardShown(a) => usersDb[reg[a].userId].role = "client"
  /\ resolver.pc # "idle" => usersDb[resolver.uid].role = "client"

\* ------------------------------------ Payment status: the three renderings
\* In this specification adminView names the view the browser shows:
\* "dashboard" and "clients" of the administrator, "client" for the
\* ClientDashboard of the account u1, and "crashed" once a render threw;
\* viewPayments is the payments state of that view.
StatusViews == {"dashboard", "clients", "client"}

\* The client document the resolver finds for account u.
ProfileOf(u) ==
  CHOOSE c \in ClientIds : clientsDb[c].live /\ clientsDb[c].associatedUserUid = u

\* query(paymentsRef, where("clientId", "==", clientProfile.id)): the
\* payments ClientDashboard subscribes to.
ClientPaymentsOf(payments, clientId) ==
  [p \in PaymentIds |->
     IF payments[p].live /\ payments[p].clientId = clientId
     THEN payments[p] ELSE NoPayment]

\* ClientDashboard.getClientPaymentStatus() past its guard, over the
\* clientPayments state and the clock read at the call.
GetClientPaymentStatus(clientPayments, now) ==
  LET currentMonth == now.month0 + 1
      currentYear  == now.fullYear
      dayOfMonth   == now.date
      hasPaidThisMonth ==
        \E payment \in LivePayments(clientPayments) :
          /\ payment.paymentMonth = currentMonth
          /\ payment.paymentYear = currentYear
  IN  IF hasPaidThisMonth THEN "Al dia"
      ELSE IF dayOfMonth > 10 THEN "Vencido" ELSE "Pendiente"

\* getClientPaymentStatus() in a render of ClientDashboard.  Its guard
\* returns "Cargando..." while clientProfile or adminUserId is null; past
\* the guard it calls useState and useEffect.  The render before the first
\* one past the guard called neither, and React leaves open what a render
\* does that calls more hooks than the one before: hooks is "throws" when
\* the render is rejected, "runs" when the hooks are taken as new ones.
RenderClientStatus(resolved, hooksBefore, hooks, clientPayments, now) ==
  IF ~resolved THEN "Cargando..."
  ELSE IF ~hooksBefore /\ hooks = "throws" THEN "error"
  ELSE GetClientPaymentStatus(clientPayments, now)

StatusShown(s) == [date |-> today, status |-> [c \in ClientIds |-> s], overdue |-> 0]

\* The render before this one called the hooks of getClientPaymentStatus.
HooksBefore(u) ==
  cdAdmin[u] /\ rendered.status[ProfileOf(u)] \notin {"Cargando...", "error"}

statusFrame == <<shiftsDb, clientsDb, paymentsDb, modalitiesDb, inFlight,
                 adminShifts, cdShifts, delState, modDel, acctVars>>

\* A view mounts with payments = [] and renders; ClientDashboard mounts
\* with clientProfile = null.
StatusMount(v) ==
  /\ adminView \in StatusViews /\ v # adminView
  /\ adminView' = v
  /\ cdAdmin' = [u \in ClientUids |-> FALSE]
  /\ viewPayments' = [p \in PaymentIds |-> NoPayment]
  /\ rendered' = IF v = "client"
                 THEN StatusShown(RenderClientStatus(FALSE, FALSE, "runs", viewPayments', today))
                 ELSE RenderView(v, viewPayments', today)
  /\ lastOp' = Quiet
  /\ UNCHANGED <<today, statusFrame>>

\* fetchClientProfile found the client: setClientProfile, setAdminUserId and
\* the render that follows, the first one past the guard.
cdProfileFound(u, hooks) ==
  /\ adminView = "client" /\ ~cdAdmin[u]
  /\ \E c \in ClientIds : clientsDb[c].live /\ clientsDb[c].associatedUserUid = u
  /\ cdAdmin' = [cdAdmin EXCEPT ![u] = TRUE]
  /\ rendered' = StatusShown(RenderClientStatus(TRUE, FALSE, hooks, viewPayments, today))
  /\ adminView' = IF hooks = "throws" THEN "crashed" ELSE adminView
  /\ lastOp' = Op("getClientPaymentStatus", ProfileOf(u), hooks, rendered'.status[ProfileOf(u)])
  /\ UNCHANGED <<today, viewPayments, statusFrame>>

\* The payments subscription of the view delivers: setPayments, or
\* setClientPayments with the payments of the client, and the render that
\* follows.
StatusDeliver ==
  /\ \/ adminView \in {"dashboard", "clients"}
     \/ adminView = "client" /\ HooksBefore("u1")
  /\ viewPayments' = IF adminView = "client"
                     THEN ClientPaymentsOf(paymentsDb, ProfileOf("u1"))
                     ELSE paymentsDb
  /\ viewPayments' # viewPayments
  /\ rendered' = IF adminView = "client"
                 THEN StatusShown(RenderClientStatus(TRUE, TRUE, "runs", viewPayments', today))
                 ELSE RenderView(adminView, viewPayments', today)
  /\ lastOp' = Quiet
  /\ UNCHANGED <<today, adminView, cdAdmin, statusFrame>>

\* The clock moves on, and the view renders again.
StatusClock ==
  /\ adminView \in StatusViews
  /\ \E d \in ClockDates : Earlier(today, d) /\ today' = d
  /\ rendered' = IF adminView = "client"
                 THEN [date |-> today',
                       status |-> [c \in ClientIds |->
                          RenderClientStatus(cdAdmin["u1"], HooksBefore("u1"), "runs",
                                             viewPayments, today')],
                       overdue |-> 0]
                 ELSE RenderView(adminView, viewPayments, today')
  /\ lastOp' = Quiet
  /\ UNCHANGED <<viewPayments, adminView, cdAdmin, statusFrame>>

\* The payment documents the ledger can hold.
StoredPayments ==
  [live : {TRUE}, clientId : ClientIds, amount : {50},
   paymentMonth : PayMonths, paymentYear : Years]

\* Any ledger, any date, the Dashboard mounted.
InitStatus ==
  /\ shiftsDb = [s \in ShiftIds |-> BlankShift]
  /\ clientsDb = InitRoster
  /\ paymentsDb \in [PaymentIds -> StoredPayments \cup {NoPayment}]
  /\ modalitiesDb = {"m1"}
  /\ inFlight = {}
  /\ adminView = "dashboard"
  /\ adminShifts = [s \in ShiftIds |-> BlankShift]
  /\ cdAdmin = [u \in ClientUids |-> FALSE]
  /\ cdShifts = [u \in ClientUids |-> [s \in ShiftIds |-> BlankShift]]
  /\ delState = [pc |-> "idle", id |-> ""]
  /\ today \in ClockDates
  /\ viewPayments = [p \in PaymentIds |-> NoPayment]
  /\ rendered = RenderView("dashboard", viewPayments, today)
  /\ ModIdle /\ AcctIdle
  /\ lastOp = Quiet

NextStatus ==
  \/ \E v \in StatusViews : StatusMount(v)
  \/ \E u \in ClientUids, hooks \in {"runs", "throws"} : cdProfileFound(u, hooks)
  \/ StatusDeliver
  \/ StatusClock

SpecStatus == InitStatus /\ [][NextStatus]_vars

\* C30: the three implementations agree.  For the payments a view holds and
\* the date it rendered at, the status the Clients table shows for a client
\* is the one Dashboard.getPaymentStatus gives, the Dashboard counts the
\* clients Clients.getPaymentStatus calls Overdue, and the status
\* ClientDashboard shows a resolved client is the one both give for that
\* client.
C30_StatusImplementationsAgree ==
  /\ adminView = "clients" =>
       \A c \in ClientIds :
         rendered.status[c] = DashboardGetPaymentStatus(viewPayments, rendered.date, c)
  /\ adminView = "dashboard" =>
       rendered.overdue =
         Cardinality({c \in ClientIds :
            /\ clientsDb[c].live
            /\ ClientsGetPaymentStatus(viewPayments, rendered.date, c) = "Vencido"})
  /\ \A u \in ClientUids :
       (adminView \in {"client", "crashed"} /\ cdAdmin[u]) =>
          /\ rendered.status[ProfileOf(u)] =
               DashboardGetPaymentStatus(viewPayments, rendered.date, ProfileOf(u))
          /\ rendered.status[ProfileOf(u)] =
               ClientsGetPaymentStatus(viewPayments, rendered.date, ProfileOf(u))

\* The rule itself is the same in the three: where the render past the guard
\* runs, ClientDashboard shows what the other two give.
StatusRuleShared ==
  \A u \in ClientUids :
    (adminView = "client" /\ cdAdmin[u]) =>
       rendered.status[ProfileOf(u)] =
         ClientsGetPaymentStatus(viewPayments, rendered.date, ProfileOf(u))

====
